---- MODULE Spec2Model ----
(***************************************************************************)
(* Multi-sensor detection fusion and correlation of the DataBirdLab        *)
(* dashboard: the FusionCard species inference (Dashboard.jsx), the        *)
(* InspectorPanel cross-reference of one detection against the detections  *)
(* of the other modality (InspectorPanel.tsx, mockData) and the stations   *)
(* of the map (UnifiedMap.tsx).                                            *)
(*                                                                         *)
(* Numbers.  JavaScript numbers are doubles; the model computes in exact   *)
(* integer arithmetic.  Math.round(x) rounds half up, so                   *)
(* Math.round(n / d) is (2n + d) \div 2d for n >= 0, d > 0.  Coordinates   *)
(* are held in metres of arc on the local tangent plane (lat northwards,   *)
(* lon eastwards), where the haversine distance of two points less than a  *)
(* kilometre apart is their Euclidean distance; timestamps are held in     *)
(* milliseconds since an epoch, and a time difference is held in           *)
(* milliseconds (the code's minutes times 60000) so that no fraction of a  *)
(* minute is lost.                                                         *)
(*                                                                         *)
(* Objects.  A JavaScript object is a function on its own keys; a key      *)
(* that is missing is a key outside DOMAIN.  An object whose key order is  *)
(* observable (Object.entries) is a sequence of [key, value] records in    *)
(* insertion order.  null is the record Null.  A number that may be NaN is *)
(* an integer, NaN being the integer NaN, and is compared through Less.    *)
(***************************************************************************)
EXTENDS Integers, Sequences, FiniteSets, TLC

VARIABLES
    \* FusionCard
    fusionResponse, report, speciesInferences,
    \* the detection store behind /api/detections/visual and /acoustic
    serverVisual, serverAcoustic,
    \* mockData module
    visualDetections, acousticDetections,
    \* Dashboard
    visualData, acousticData, selectedVisual, selectedAcoustic, selectedARU,
    selectedSurvey, isInspectorOpen,
    \* InspectorPanel; selectedIsLive tells whether the selected object is an
    \* element of the module array as it is now (the dependencies of a memo are
    \* compared by identity, and every fetch parses new objects)
    sourceData, correlations, selectedIsLive,
    \* UnifiedMap
    aruStations, renderError,
    \* SpeciesColorMapping of the settings
    mappingResponse, mapping, newSpecies, mappingLoading,
    \* FusionCard: the survey selects, the requests of handleGenerate whose
    \* response is awaited, loading and error
    selectedDroneSurvey, selectedAcousticSurvey, fusionInFlight, fusionLoading,
    fusionError,
    \* Dashboard's survey filter, and the ARU view of the InspectorPanel: the
    \* requests of its effect whose response is awaited, and what it shows
    selectedSurveyIds, aruInFlight, filteredDetections, availableSurveys,
    \* BirdJet: its states, the /analyze requests whose response is awaited
    \* and the reset timers that are set
    audioFile, analysisStatus, analysisResults, errorMessage, analyzeInFlight,
    resetTimers,
    \* NewSurveyModal: surveyName is its state name, uploadError its state
    \* error, uploadInFlight the import requests whose response is awaited
    surveyName, orthomosaicFiles, audioFiles, audioAruMap, availableArus, isUploading,
    uploadError, uploadInFlight,
    \* FusionInsightsPanel: its props, its states loading, report and error,
    \* and the requests of its effect whose response is awaited
    insightsProps, insightsLoading, insightsReport, insightsError, insightsInFlight

fusionVars == <<fusionResponse, report, speciesInferences>>

storeVars == <<serverVisual, serverAcoustic>>

moduleVars == <<visualDetections, acousticDetections>>

dashVars == <<visualData, acousticData, selectedVisual, selectedAcoustic, selectedARU,
              selectedSurvey, isInspectorOpen>>

inspectorVars == <<sourceData, correlations, selectedIsLive>>

mapVars == <<aruStations, renderError>>

settingsVars == <<mappingResponse, mapping, newSpecies, mappingLoading>>

generateVars == <<selectedDroneSurvey, selectedAcousticSurvey, fusionInFlight,
                  fusionLoading, fusionError>>

aruVars == <<selectedSurveyIds, aruInFlight, filteredDetections, availableSurveys>>

birdJetVars == <<audioFile, analysisStatus, analysisResults, errorMessage,
                 analyzeInFlight, resetTimers>>

modalVars == <<surveyName, orthomosaicFiles, audioFiles, audioAruMap, availableArus,
               isUploading, uploadError, uploadInFlight>>

insightsVars == <<insightsProps, insightsLoading, insightsReport, insightsError,
                  insightsInFlight>>

\* what the correlation and inference leave alone
sideVars == <<settingsVars, generateVars, aruVars, birdJetVars, modalVars, insightsVars>>

\* the Dashboard's map, inspector and FusionCard
pageVars == <<fusionVars, storeVars, moduleVars, dashVars, inspectorVars, mapVars>>

vars == <<pageVars, sideVars>>

\* what a component leaves alone
besideSettings == <<pageVars, generateVars, aruVars, birdJetVars, modalVars, insightsVars>>

besideGenerate == <<fusionResponse, storeVars, moduleVars, dashVars, inspectorVars, mapVars,
                    settingsVars, aruVars, birdJetVars, modalVars, insightsVars>>

besideAru == <<settingsVars, generateVars, birdJetVars, modalVars, insightsVars>>

besideBirdJet == <<pageVars, settingsVars, generateVars, aruVars, modalVars, insightsVars>>

besideModal == <<pageVars, settingsVars, generateVars, aruVars, birdJetVars, insightsVars>>

besideInsights == <<pageVars, settingsVars, generateVars, aruVars, birdJetVars, modalVars>>

Null == [null |-> TRUE]

(***************************************************************************)
(* Bounds of the inputs.                                                   *)
(***************************************************************************)
MaxDrone == 3

MaxAudio == 2

MaxDetections == 2

ColorKeys == {"white", "black"}

SpeciesNames == {"Great Egret", "Little Egret", "Asian Openbill"}

(***************************************************************************)
(* Helpers on sequences.                                                   *)
(***************************************************************************)
Range(s) == {s[i] : i \in DOMAIN s}

NoDupSeqs(S, n) == {s \in UNION {[1..k -> S] : k \in 0..n} :
                      \A i, j \in DOMAIN s : i # j => s[i] # s[j]}

\* the sum of the values of a function with a finite domain
RECURSIVE SumOver(_, _)
SumOver(f, S) ==
    IF S = {} THEN 0
    ELSE LET k == CHOOSE x \in S : TRUE IN f[k] + SumOver(f, S \ {k})

(***************************************************************************)
(* The reports the server can answer with: counts by label of a visual     *)
(* survey of at most MaxDrone detections, counts by species of an acoustic *)
(* survey of at most MaxAudio detections per species, and a mapping that   *)
(* lists no species twice, neither within a color nor under two colors.    *)
(***************************************************************************)
DroneClasses == {c \o "_birds" : c \in ColorKeys}

VisualCountsSet == {f \in UNION {[S -> 0..MaxDrone] : S \in SUBSET DroneClasses} :
                      SumOver(f, DOMAIN f) <= MaxDrone}

AcousticCountsSet == UNION {[S -> 0..MaxAudio] : S \in SUBSET SpeciesNames}

SpeciesLists == NoDupSeqs(SpeciesNames, Cardinality(SpeciesNames))

MappingSet == {m \in UNION {[1..k -> [key : ColorKeys, value : SpeciesLists]] : k \in 0..Cardinality(ColorKeys)} :
                 /\ \A i, j \in DOMAIN m : i # j => m[i].key # m[j].key
                 /\ \A i, j \in DOMAIN m : i # j => Range(m[i].value) \cap Range(m[j].value) = {}}

Reports == [visual_counts : VisualCountsSet, acoustic_counts : AcousticCountsSet,
            species_color_mapping : MappingSet]
           \cup [visual_counts : VisualCountsSet, acoustic_counts : AcousticCountsSet]
           \cup [acoustic_counts : AcousticCountsSet, species_color_mapping : MappingSet]
           \cup [visual_counts : VisualCountsSet, species_color_mapping : MappingSet]

(***************************************************************************)
(* FusionCard.speciesInferences                                            *)
(***************************************************************************)
\* the lookup without `|| 0`: a missing count stays undefined, which is not a
\* number (held as -1, which no count is)
CountOrZero_undefined(obj, field, key) ==
    IF field \in DOMAIN obj /\ key \in DOMAIN obj[field] THEN obj[field][key] ELSE -1

\* obj?.[key] || 0
CountOrZero(obj, field, key) ==
    IF field \in DOMAIN obj /\ key \in DOMAIN obj[field] THEN obj[field][key] ELSE 0

\* a missing mapping replaced by a built-in one instead of {}
MappingEntries_default(rep) ==
    IF "species_color_mapping" \in DOMAIN rep THEN rep.species_color_mapping
    ELSE <<[key |-> "white", value |-> <<>>], [key |-> "black", value |-> <<>>]>>

\* Object.entries(species_color_mapping || {})
MappingEntries(rep) ==
    IF "species_color_mapping" \in DOMAIN rep THEN rep.species_color_mapping ELSE <<>>

\* `${colorKey}_birds`
DroneClass(colorKey) == colorKey \o "_birds"

DroneCount(rep, colorKey) == CountOrZero(rep, "visual_counts", DroneClass(colorKey))

\* Math.round(n / d) for n >= 0, d > 0
MathRound(n, d) == (2 * n + d) \div (2 * d)

Min(a, b) == IF a < b THEN a ELSE b

RECURSIVE SelectSeq2(_, _)
\* speciesList.map(species => ({species, audioCount})).filter(s => s.audioCount > 0)
SelectSeq2(speciesList, rep) ==
    IF speciesList = <<>> THEN <<>>
    ELSE LET audioCount == CountOrZero(rep, "acoustic_counts", Head(speciesList))
             rest == SelectSeq2(Tail(speciesList), rep)
         IN IF audioCount > 0
            THEN <<[species |-> Head(speciesList), audioCount |-> audioCount]>> \o rest
            ELSE rest

\* the map without the filter
SpeciesBreakdown_unfiltered(speciesList, rep) ==
    [i \in DOMAIN speciesList |->
        [species |-> speciesList[i],
         audioCount |-> CountOrZero(rep, "acoustic_counts", speciesList[i])]]

SpeciesBreakdown(speciesList, rep) == SelectSeq2(speciesList, rep)

RECURSIVE TotalAudio(_)
\* speciesBreakdown.reduce((sum, s) => sum + s.audioCount, 0)
TotalAudio(speciesBreakdown) ==
    IF speciesBreakdown = <<>> THEN 0
    ELSE Head(speciesBreakdown).audioCount + TotalAudio(Tail(speciesBreakdown))

\* Math.floor in place of Math.round
Probability_floor(audioCount, totalAudio) ==
    IF totalAudio > 0 THEN (audioCount * 100) \div totalAudio ELSE 0

\* totalAudio > 0 ? Math.round((s.audioCount / totalAudio) * 100) : 0
Probability(audioCount, totalAudio) ==
    IF totalAudio > 0 THEN MathRound(audioCount * 100, totalAudio) ELSE 0

\* a sort that puts s in front of the elements it ties with
InsertByProbability_tiesFirst(sorted, s) ==
    LET before == {i \in DOMAIN sorted : sorted[i].probability <= s.probability}
        pos == IF before = {} THEN Len(sorted) + 1
               ELSE CHOOSE i \in before : \A j \in before : i <= j
    IN SubSeq(sorted, 1, pos - 1) \o <<s>> \o SubSeq(sorted, pos, Len(sorted))

\* Array.prototype.sort is stable: s goes behind every element that does not
\* compare after it under (a, b) => b.probability - a.probability
InsertByProbability(sorted, s) ==
    LET before == {i \in DOMAIN sorted : sorted[i].probability < s.probability}
        pos == IF before = {} THEN Len(sorted) + 1
               ELSE CHOOSE i \in before : \A j \in before : i <= j
    IN SubSeq(sorted, 1, pos - 1) \o <<s>> \o SubSeq(sorted, pos, Len(sorted))

RECURSIVE SortByProbability(_, _)
SortByProbability(sorted, todo) ==
    IF todo = <<>> THEN sorted
    ELSE SortByProbability(InsertByProbability(sorted, Head(todo)), Tail(todo))

WithProbabilities(speciesBreakdown, totalAudio) ==
    SortByProbability(<<>>,
        [i \in DOMAIN speciesBreakdown |->
            [species |-> speciesBreakdown[i].species,
             audioCount |-> speciesBreakdown[i].audioCount,
             probability |-> Probability(speciesBreakdown[i].audioCount, totalAudio)]])

ExplainedCount(droneCount, totalAudio) == Min(droneCount, totalAudio)

\* droneCount - totalAudio, without the cap at droneCount
Unidentified_uncapped(droneCount, totalAudio) == droneCount - totalAudio

Unidentified(droneCount, totalAudio) == droneCount - ExplainedCount(droneCount, totalAudio)

\* the score without Math.min(100, ...)
ConfidenceScore_unclamped(droneCount, totalAudio) ==
    IF totalAudio > 0 THEN MathRound(totalAudio * 100, droneCount) ELSE 0

ConfidenceScore(droneCount, totalAudio) ==
    IF totalAudio > 0 THEN Min(100, MathRound(totalAudio * 100, droneCount)) ELSE 0

Inference(rep, colorKey, speciesList) ==
    LET droneCount == DroneCount(rep, colorKey)
        speciesBreakdown == SpeciesBreakdown(speciesList, rep)
        totalAudio == TotalAudio(speciesBreakdown)
    IN [colorClass |-> colorKey,
        droneClass |-> DroneClass(colorKey),
        droneCount |-> droneCount,
        species |-> WithProbabilities(speciesBreakdown, totalAudio),
        totalAudioDetections |-> totalAudio,
        unidentified |-> Unidentified(droneCount, totalAudio),
        confidenceScore |-> ConfidenceScore(droneCount, totalAudio)]

\* the loop without the continue
Skipped_never(rep, colorKey) == FALSE

\* if (droneCount === 0) continue;
Skipped(rep, colorKey) == DroneCount(rep, colorKey) = 0

RECURSIVE InferencesOf(_, _)
InferencesOf(rep, entries) ==
    IF entries = <<>> THEN <<>>
    ELSE LET e == Head(entries)
         IN (IF Skipped(rep, e.key) THEN <<>> ELSE <<Inference(rep, e.key, e.value)>>)
            \o InferencesOf(rep, Tail(entries))

\* the inferences collected back to front
SpeciesInferences_reversed(rep) ==
    IF rep = Null THEN <<>>
    ELSE LET entries == MappingEntries(rep)
         IN InferencesOf(rep, [i \in DOMAIN entries |-> entries[Len(entries) + 1 - i]])

SpeciesInferences(rep) ==
    IF rep = Null THEN <<>> ELSE InferencesOf(rep, MappingEntries(rep))

\* the report after the memo: the species lists are mapped and filtered into
\* new arrays, and it is the new array of a breakdown that is sorted, so the
\* report is as it was
InferredReport(rep) == rep

(***************************************************************************)
(* Detections.  The pool holds the shapes a fetched detection can have.    *)
(* Around the detection at the origin one millisecond after the epoch      *)
(* there are one 300 m east (1 ms earlier) and one 300 m north (1 min      *)
(* later), at the same distance from it, and one 500 m east that is one    *)
(* millisecond short of 30 min later; the last one is 200 m and exactly 30 *)
(* min from the one 300 m east.  The distances from and along the equator  *)
(* (300, 300, 500 and 200 m) are exact great-circle distances.             *)
(***************************************************************************)
DetectionPool ==
    {[lat |-> 0, lon |-> 0, timestamp |-> 1],
     [lat |-> 0, lon |-> 300, timestamp |-> 0],
     [lat |-> 300, lon |-> 0, timestamp |-> 60001],
     [lat |-> 0, lon |-> 500, timestamp |-> 1800000]}

\* a fetched array: the i-th record has id i
Collections ==
    UNION {{[i \in 1..k |-> [id |-> i, lat |-> f[i].lat, lon |-> f[i].lon,
                             timestamp |-> f[i].timestamp]] : f \in [1..k -> DetectionPool]}
           : k \in 0..MaxDetections}

(***************************************************************************)
(* Field data as the store can hold it: acoustic detections of a recorder  *)
(* with a database id (aru_id, from 1) or of a legacy recorder without,    *)
(* and records that lack a field.  Of the legacy records the one 3 m north *)
(* of the origin rounds to the grid line of the origin and the one 8 m     *)
(* north to the next line.                                                 *)
(***************************************************************************)
FieldPool ==
    {[lat |-> 0, lon |-> 0, timestamp |-> 1],
     [lat |-> 3, lon |-> 0, timestamp |-> 1],
     [lat |-> 8, lon |-> 0, timestamp |-> 1],
     [lat |-> 0, lon |-> 0, timestamp |-> 1, aru_id |-> 1],
     [lat |-> 300, lon |-> 0, timestamp |-> 1, aru_id |-> 1],
     [lat |-> 0, lon |-> 0, timestamp |-> 1, aru_id |-> 2],
     [lon |-> 0, timestamp |-> 1],
     [lat |-> 0, timestamp |-> 1],
     [lat |-> 0, lon |-> 0],
     [lon |-> 0, timestamp |-> 1, aru_id |-> 1]}

\* a fetched array of field data: the i-th record has id i
FieldCollections ==
    UNION {{[i \in 1..k |-> f[i] @@ [id |-> i]] : f \in [1..k -> FieldPool]}
           : k \in 0..MaxDetections}

\* the visual detections to go with them: none, or one that may lack a field
AnchorPool ==
    {[lat |-> 0, lon |-> 0, timestamp |-> 1],
     [lon |-> 0, timestamp |-> 1],
     [lat |-> 0, timestamp |-> 1],
     [lat |-> 0, lon |-> 0]}

AnchorCollections == {<<>>} \cup {<<a @@ [id |-> 1]>> : a \in AnchorPool}

(***************************************************************************)
(* InspectorPanel.getDistanceMeters and correlations                       *)
(***************************************************************************)
RECURSIVE SqrtSearch(_, _, _)
SqrtSearch(n, lo, hi) ==
    IF lo = hi THEN lo
    ELSE LET mid == (lo + hi + 1) \div 2
         IN IF mid * mid <= n THEN SqrtSearch(n, mid, hi) ELSE SqrtSearch(n, lo, mid - 1)

Abs(x) == IF x < 0 THEN -x ELSE x

\* Math.sqrt(a * a + b * b) rounded down to the whole number, searched
\* between max(|a|, |b|) and |a| + |b|
Hypot(a, b) ==
    SqrtSearch(a * a + b * b, IF Abs(a) > Abs(b) THEN Abs(a) ELSE Abs(b), Abs(a) + Abs(b))

\* NaN, what arithmetic on undefined gives; no coordinate, timestamp,
\* distance or time difference is negative
NaN == -1

\* a field the record lacks read as 0
NumberOf_zero(d, field) == IF field \in DOMAIN d THEN d[field] ELSE 0

\* d.lat, d.lon, new Date(d.timestamp).getTime() as a number: a field the record
\* lacks reads as undefined and counts as NaN
NumberOf(d, field) == IF field \in DOMAIN d THEN d[field] ELSE NaN

\* the difference of the longitudes taken as lon2
getDistanceMeters_lonFromZero(lat1, lon1, lat2, lon2) ==
    IF NaN \in {lat1, lon1, lat2, lon2} THEN NaN ELSE Hypot(lat2 - lat1, lon2)

\* haversine on the tangent plane, in whole metres (exact for two points on
\* the equator or on one meridian); NaN when an argument is NaN
getDistanceMeters(lat1, lon1, lat2, lon2) ==
    IF NaN \in {lat1, lon1, lat2, lon2} THEN NaN ELSE Hypot(lat2 - lat1, lon2 - lon1)

\* Math.abs(new Date(current.timestamp).getTime() - new Date(d.timestamp).getTime()),
\* the division by 1000 and by 60 left to the comparison
TimeDiff(current, d) ==
    IF NaN \in {NumberOf(current, "timestamp"), NumberOf(d, "timestamp")} THEN NaN
    ELSE Abs(NumberOf(current, "timestamp") - NumberOf(d, "timestamp"))

\* a < b, which is false when a side is NaN
Less(a, b) == a # NaN /\ b # NaN /\ a < b

\* 500m radius
RadiusMeters == 500

\* 30min window, in the unit of TimeDiff
WindowMs == 30 * 60 * 1000

\* the filter with an inclusive radius
InWindow_inclusive(item) ==
    (Less(item.dist, RadiusMeters) \/ item.dist = RadiusMeters) /\ Less(item.timeDiff, WindowMs)

\* .filter(item => item.dist < 500 && item.timeDiff < 30)
InWindow(item) == Less(item.dist, RadiusMeters) /\ Less(item.timeDiff, WindowMs)

\* a sort that puts item in front of the elements it ties with
InsertByDist_tiesFirst(sorted, item) ==
    LET after == {i \in DOMAIN sorted : sorted[i].dist >= item.dist}
        pos == IF after = {} THEN Len(sorted) + 1
               ELSE CHOOSE i \in after : \A j \in after : i <= j
    IN SubSeq(sorted, 1, pos - 1) \o <<item>> \o SubSeq(sorted, pos, Len(sorted))

\* Array.prototype.sort is stable: item goes behind every element that does
\* not compare after it under (a, b) => a.dist - b.dist
InsertByDist(sorted, item) ==
    LET after == {i \in DOMAIN sorted : sorted[i].dist > item.dist}
        pos == IF after = {} THEN Len(sorted) + 1
               ELSE CHOOSE i \in after : \A j \in after : i <= j
    IN SubSeq(sorted, 1, pos - 1) \o <<item>> \o SubSeq(sorted, pos, Len(sorted))

RECURSIVE SortByDist(_, _)
SortByDist(sorted, todo) ==
    IF todo = <<>> THEN sorted
    ELSE SortByDist(InsertByDist(sorted, Head(todo)), Tail(todo))

\* sourceData.map(d => ({data: d, dist, timeDiff, type: otherType}))
MapItems(current, otherType, source) ==
    [i \in DOMAIN source |->
        [data |-> source[i],
         dist |-> getDistanceMeters(NumberOf(current, "lat"), NumberOf(current, "lon"),
                                    NumberOf(source[i], "lat"), NumberOf(source[i], "lon")),
         timeDiff |-> TimeDiff(current, source[i]),
         type |-> otherType]]

Correlate(current, otherType, source) ==
    SortByDist(<<>>, SelectSeq(MapItems(current, otherType, source), InWindow))

\* sourceData.sort(...) in front of the chain, which orders sourceData itself
ScannedSource_sortedInPlace(current, otherType, source) ==
    LET sorted == SortByDist(<<>>, MapItems(current, otherType, source))
    IN [i \in DOMAIN sorted |-> sorted[i].data]

\* sourceData after the chain: map and filter return new arrays and sort
\* orders the array that filter returned, so sourceData is as it was
ScannedSource(current, otherType, source) == source

\* const sourceData = currentType === 'visual' ? acousticDetections : visualDetections
SourceData(selVisual, selAcoustic, visuals, acoustics) ==
    IF selVisual = Null /\ selAcoustic = Null THEN <<>>
    ELSE IF selVisual # Null THEN acoustics ELSE visuals

\* the anchor correlated against the collection of its own modality
Correlations_ownModality(selVisual, selAcoustic, visuals, acoustics) ==
    IF selVisual = Null /\ selAcoustic = Null THEN <<>>
    ELSE LET current == IF selVisual # Null THEN selVisual ELSE selAcoustic
             otherType == IF selVisual # Null THEN "acoustic" ELSE "visual"
         IN Correlate(current, otherType, SourceData(selAcoustic, selVisual, visuals, acoustics))

\* the useMemo over [selectedVisual, selectedAcoustic]
Correlations(selVisual, selAcoustic, visuals, acoustics) ==
    IF selVisual = Null /\ selAcoustic = Null THEN <<>>
    ELSE LET current == IF selVisual # Null THEN selVisual ELSE selAcoustic
             otherType == IF selVisual # Null THEN "acoustic" ELSE "visual"
         IN Correlate(current, otherType, SourceData(selVisual, selAcoustic, visuals, acoustics))

(***************************************************************************)
(* UnifiedMap.aruStations.  A station key is a string in the code,         *)
(* `aru-${aru_id}` or `${lat.toFixed(4)},${lon.toFixed(4)}`; here it is a  *)
(* record of the numbers the string is made of.  The frame origin lies on  *)
(* a line of the 4-decimal grid, and 0.0001 degrees of arc are 11.1195 m,  *)
(* so that toFixed(4) of a coordinate is the number of the nearest grid    *)
(* line.                                                                   *)
(***************************************************************************)
\* x.toFixed(4) rounded towards the next line below
ToFixed4_floor(x) == (x * 10000) \div 111195

\* x.toFixed(4), x >= 0 in metres of arc
ToFixed4(x) == MathRound(x * 10000, 111195)

\* d.aru_id ? ... : ... (0 is not an id)
HasAruId(d) == "aru_id" \in DOMAIN d /\ d.aru_id # 0

\* d.lat.toFixed / d.lon.toFixed of an undefined coordinate throws TypeError
KeyThrows(d) == ~HasAruId(d) /\ ("lat" \notin DOMAIN d \/ "lon" \notin DOMAIN d)

StationKey(d) ==
    IF HasAruId(d) THEN [aru |-> d.aru_id]
    ELSE [lat4 |-> ToFixed4(d.lat), lon4 |-> ToFixed4(d.lon)]

\* the stations numbered from 0
StationId_zeroBased(d, stations) ==
    IF HasAruId(d) THEN "ARU " \o ToString(d.aru_id)
    ELSE "Station " \o ToString(Len(stations))

\* `ARU ${d.aru_id}` or `Station ${Object.keys(stations).length + 1}`
StationId(d, stations) ==
    IF HasAruId(d) THEN "ARU " \o ToString(d.aru_id)
    ELSE "Station " \o ToString(Len(stations) + 1)

\* {lat: d.lat, lon: d.lon, detections: [], id, aru_id: d.aru_id}; a field the
\* detection lacks is undefined in the station
NewStation(d, stations) ==
    [f \in {"key", "detections", "id"} \cup ({"lat", "lon", "aru_id"} \cap DOMAIN d) |->
        CASE f = "key" -> StationKey(d)
          [] f = "detections" -> <<>>
          [] f = "id" -> StationId(d, stations)
          [] OTHER -> d[f]]

\* one turn of the forEach with unshift in place of push
AddDetection_unshift(stations, d) ==
    LET key == StationKey(d)
        known == {i \in DOMAIN stations : stations[i].key = key}
    IN IF known = {}
       THEN Append(stations, [NewStation(d, stations) EXCEPT !.detections = <<d>>])
       ELSE [stations EXCEPT ![CHOOSE i \in known : TRUE].detections = <<d>> \o @]

\* one turn of the forEach
AddDetection(stations, d) ==
    LET key == StationKey(d)
        known == {i \in DOMAIN stations : stations[i].key = key}
    IN IF known = {}
       THEN Append(stations, [NewStation(d, stations) EXCEPT !.detections = <<d>>])
       ELSE [stations EXCEPT ![CHOOSE i \in known : TRUE].detections = Append(@, d)]

RECURSIVE GroupStations(_, _)
GroupStations(stations, todo) ==
    IF todo = <<>> THEN stations
    ELSE GroupStations(AddDetection(stations, Head(todo)), Tail(todo))

\* acousticDetections after the forEach, which reads each detection and
\* pushes it to the list of its station: the array is as it was
GroupedDetections(acoustics) == acoustics

\* whether the useMemo throws: the forEach stops at the first detection whose
\* key cannot be made
StationsThrow(acoustics) == \E i \in DOMAIN acoustics : KeyThrows(acoustics[i])

\* Object.values(stations); nothing is rendered when the memo throws
AruStations(acoustics) ==
    IF StationsThrow(acoustics) THEN <<>> ELSE GroupStations(<<>>, acoustics)

RenderError(acoustics) == IF StationsThrow(acoustics) THEN "TypeError" ELSE "none"

(***************************************************************************)
(* FusionCard: the state after construction and the handlers that set the  *)
(* report; speciesInferences is the useMemo over [report].                 *)
(***************************************************************************)
\* fusionResponse is the body /api/fusion/report answers with for the
\* selected pair of surveys
FusionInit ==
    /\ fusionResponse \in Reports
    /\ report = Null
    /\ speciesInferences = <<>>

\* the reports of a page that also shows the map: one color with every
\* species as a candidate, the most heard species listed last
PageReports ==
    {[visual_counts |-> [c \in {"white_birds"} |-> MaxDrone],
      acoustic_counts |-> [sp \in SpeciesNames |-> IF sp = "Great Egret" THEN MaxAudio ELSE 1],
      species_color_mapping |-> <<[key |-> "white", value |-> l]>>] :
        l \in {s \in SpeciesLists : Len(s) = Cardinality(SpeciesNames) /\ s[Len(s)] = "Great Egret"}}

PageFusionInit ==
    /\ fusionResponse \in PageReports
    /\ report = Null
    /\ speciesInferences = <<>>

\* no fusion request is made
FusionIdle ==
    /\ fusionResponse = Null
    /\ report = Null
    /\ speciesInferences = <<>>

\* handleGenerate, response ok: const data = await res.json(); setReport(data)
SetReport ==
    /\ fusionResponse # Null
    /\ report' = InferredReport(fusionResponse)
    /\ speciesInferences' = SpeciesInferences(fusionResponse)
    /\ UNCHANGED <<fusionResponse, storeVars, moduleVars, dashVars, inspectorVars, mapVars, sideVars>>

\* survey select onChange: setReport(null)
ClearReport ==
    /\ report # Null
    /\ report' = Null
    /\ speciesInferences' = SpeciesInferences(Null)
    /\ UNCHANGED <<fusionResponse, storeVars, moduleVars, dashVars, inspectorVars, mapVars, sideVars>>

FusionNext == SetReport \/ ClearReport

(***************************************************************************)
(* Dashboard, mockData and InspectorPanel                                  *)
(***************************************************************************)
\* the Dashboard over a store of at most MaxDetections detections of a
\* modality and MaxDetections + 1 detections in all
DashInit ==
    /\ serverVisual \in Collections
    /\ serverAcoustic \in Collections
    /\ Len(serverVisual) + Len(serverAcoustic) <= MaxDetections + 1
    /\ visualDetections = <<>>
    /\ acousticDetections = <<>>
    /\ visualData = <<>>
    /\ acousticData = <<>>
    /\ selectedVisual = Null
    /\ selectedAcoustic = Null
    /\ selectedARU = Null
    /\ selectedSurvey = Null
    /\ isInspectorOpen = FALSE
    /\ sourceData = <<>>
    /\ correlations = <<>>
    /\ selectedIsLive = FALSE
    /\ aruStations = <<>>
    /\ renderError = "none"

\* the Dashboard over a store of field data
MapInit ==
    /\ serverVisual \in AnchorCollections
    /\ serverAcoustic \in FieldCollections
    /\ visualDetections = <<>>
    /\ acousticDetections = <<>>
    /\ visualData = <<>>
    /\ acousticData = <<>>
    /\ selectedVisual = Null
    /\ selectedAcoustic = Null
    /\ selectedARU = Null
    /\ selectedSurvey = Null
    /\ isInspectorOpen = FALSE
    /\ sourceData = <<>>
    /\ correlations = <<>>
    /\ selectedIsLive = FALSE
    /\ aruStations = <<>>
    /\ renderError = "none"

\* nothing is fetched and nothing is selected
DashIdle ==
    /\ serverVisual = <<>>
    /\ serverAcoustic = <<>>
    /\ visualDetections = <<>>
    /\ acousticDetections = <<>>
    /\ visualData = <<>>
    /\ acousticData = <<>>
    /\ selectedVisual = Null
    /\ selectedAcoustic = Null
    /\ selectedARU = Null
    /\ selectedSurvey = Null
    /\ isInspectorOpen = FALSE
    /\ sourceData = <<>>
    /\ correlations = <<>>
    /\ selectedIsLive = FALSE
    /\ aruStations = <<>>
    /\ renderError = "none"

\* the page is rendered; an error thrown while rendering takes it down, as
\* nothing catches it
Mounted == renderError = "none"

\* UnifiedMap rendered with acousticDetections={acousticData}: aruStations is
\* a useMemo over [acousticDetections], and an array with the same records
\* has the same stations
RenderMap(acoustics) ==
    IF acoustics = acousticData THEN UNCHANGED mapVars
    ELSE /\ aruStations' = AruStations(acoustics)
         /\ renderError' = RenderError(acoustics)

\* Dashboard.loadData with fetchEcologicalData, both requests answered: a
\* module array is replaced when its response is ok and kept otherwise, and
\* the module arrays are what the Dashboard gets
LoadData ==
    \E audOk, visOk \in BOOLEAN :
        LET visual == IF visOk THEN serverVisual ELSE visualDetections
            acoustic == IF audOk THEN serverAcoustic ELSE acousticDetections
        IN /\ Mounted
           /\ acousticDetections' = GroupedDetections(acoustic)
           /\ acousticData' = GroupedDetections(acoustic)
           /\ RenderMap(acoustic)
           /\ visualDetections' = visual
           /\ visualData' = visual
           /\ selectedIsLive' = (/\ selectedIsLive
                                 /\ selectedVisual # Null => ~visOk
                                 /\ selectedAcoustic # Null => ~audOk)
           /\ UNCHANGED <<sourceData, correlations>>
           /\ UNCHANGED <<selectedVisual, selectedAcoustic, selectedARU, selectedSurvey,
                          isInspectorOpen, storeVars, fusionVars, sideVars>>

\* Dashboard.loadData with fetchEcologicalData throwing (a request rejected,
\* or a body that is not JSON: the visual array may already be replaced when
\* the acoustic body fails): the Dashboard gets two empty arrays
LoadDataFailed ==
    \E visualReplaced \in BOOLEAN :
        /\ Mounted
        /\ visualDetections' = IF visualReplaced THEN serverVisual ELSE visualDetections
        /\ acousticDetections' = acousticDetections
        /\ visualData' = <<>>
        /\ acousticData' = GroupedDetections(<<>>)
        /\ RenderMap(<<>>)
        /\ selectedIsLive' = (/\ selectedIsLive
                              /\ selectedVisual # Null => ~visualReplaced)
        /\ UNCHANGED <<sourceData, correlations>>
        /\ UNCHANGED <<selectedVisual, selectedAcoustic, selectedARU, selectedSurvey,
                       isInspectorOpen, storeVars, fusionVars, sideVars>>

\* the render after a selection: the memo is computed again only when
\* selectedVisual or selectedAcoustic changed, that is unless both are the
\* objects they were (null, or the same element of an array that was not
\* fetched again; the elements of an array differ in id)
Rerender(selVisual, selAcoustic) ==
    /\ IF /\ selVisual = selectedVisual
          /\ selAcoustic = selectedAcoustic
          /\ (selVisual = Null /\ selAcoustic = Null) \/ selectedIsLive
       THEN UNCHANGED <<sourceData, correlations, moduleVars>>
       ELSE /\ sourceData' = SourceData(selVisual, selAcoustic, visualDetections, acousticDetections)
            /\ correlations' = Correlations(selVisual, selAcoustic, visualDetections, acousticDetections)
            /\ visualDetections' = IF selVisual = Null /\ selAcoustic # Null
                                   THEN ScannedSource(selAcoustic, "visual", visualDetections)
                                   ELSE visualDetections
            /\ acousticDetections' = IF selVisual # Null
                                     THEN ScannedSource(selVisual, "acoustic", acousticDetections)
                                     ELSE acousticDetections
    /\ selectedIsLive' = (selVisual # Null \/ selAcoustic # Null)

handleSelectVisual ==
    \E i \in DOMAIN visualData :
        /\ Mounted
        /\ selectedVisual' = visualData[i]
        /\ selectedAcoustic' = Null
        /\ selectedARU' = Null
        /\ isInspectorOpen' = TRUE
        /\ Rerender(visualData[i], Null)
        /\ UNCHANGED <<selectedSurvey, visualData, acousticData, storeVars, fusionVars, mapVars, sideVars>>

handleSelectAcoustic ==
    \E i \in DOMAIN acousticData :
        /\ Mounted
        /\ selectedAcoustic' = acousticData[i]
        /\ selectedVisual' = Null
        /\ selectedARU' = Null
        /\ isInspectorOpen' = TRUE
        /\ Rerender(Null, acousticData[i])
        /\ UNCHANGED <<selectedSurvey, visualData, acousticData, storeVars, fusionVars, mapVars, sideVars>>

\* a close that hides the panel and keeps what is selected
handleCloseInspector_hides ==
    /\ Mounted
    /\ isInspectorOpen' = FALSE
    /\ Rerender(selectedVisual, selectedAcoustic)
    /\ UNCHANGED <<selectedVisual, selectedAcoustic, selectedARU, selectedSurvey>>
    /\ UNCHANGED <<visualData, acousticData, storeVars, fusionVars, mapVars, sideVars>>

handleCloseInspector ==
    /\ Mounted
    /\ isInspectorOpen' = FALSE
    /\ selectedVisual' = Null
    /\ selectedAcoustic' = Null
    /\ selectedARU' = Null
    /\ selectedSurvey' = Null
    /\ Rerender(Null, Null)
    /\ UNCHANGED <<visualData, acousticData, storeVars, fusionVars, mapVars, sideVars>>

DashNext == LoadData \/ LoadDataFailed \/ handleSelectVisual \/ handleSelectAcoustic \/ handleCloseInspector

(***************************************************************************)
(* SpeciesColorMapping (settings): the editable color -> species lists.    *)
(* A text is the sequence of its characters, so that trim() is computed.   *)
(***************************************************************************)
\* what can be typed into an "Add species..." input
Texts == {<<>>, <<" ">>, <<"e">>, <<" ", "e", " ">>, <<"h">>}

\* the lists GET /api/settings/species_colors may hold for a color
StoredLists == {<<>>, << <<"e">> >>, << <<"h">>, <<"e">> >>, << <<"e">>, <<"e">> >>,
                << <<" ">> >>}

\* data.mapping of the response: an object with some of the color keys
StoredMappings == UNION {[keys -> StoredLists] : keys \in SUBSET ColorKeys}

\* the response; Null is a response without mapping, or a rejected request
SettingsResponses == {Null} \cup {[mapping |-> m] : m \in StoredMappings}

RECURSIVE TrimStart(_)
TrimStart(text) ==
    IF text # <<>> /\ Head(text) = " " THEN TrimStart(Tail(text)) ELSE text

RECURSIVE TrimEnd(_)
TrimEnd(text) ==
    IF text # <<>> /\ text[Len(text)] = " " THEN TrimEnd(SubSeq(text, 1, Len(text) - 1))
    ELSE text

\* String.prototype.trim, the identity instead
Trim_none(text) == text

\* String.prototype.trim
Trim(text) == TrimEnd(TrimStart(text))

\* Array.prototype.includes
Includes(list, item) == \E i \in DOMAIN list : list[i] = item

\* data.mapping.<color> || []
ListOrEmpty(m, color) == IF color \in DOMAIN m THEN m[color] ELSE <<>>

\* useState of SpeciesColorMapping, the request of the effect in flight
MappingInit ==
    /\ mappingResponse \in SettingsResponses
    /\ mapping = [color \in ColorKeys |-> <<>>]
    /\ newSpecies = [color \in ColorKeys |-> <<>>]
    /\ mappingLoading = TRUE

\* the settings are not opened
MappingIdle ==
    /\ mappingResponse = Null
    /\ mapping = [color \in ColorKeys |-> <<>>]
    /\ newSpecies = [color \in ColorKeys |-> <<>>]
    /\ mappingLoading = TRUE

\* the effect's request settles: setMapping when data.mapping, then
\* setLoading(false); until then only "Loading species mapping..." is shown
LoadMapping ==
    /\ mappingLoading
    /\ mapping' = IF mappingResponse # Null
                  THEN [color \in ColorKeys |-> ListOrEmpty(mappingResponse.mapping, color)]
                  ELSE mapping
    /\ mappingLoading' = FALSE
    /\ UNCHANGED <<mappingResponse, newSpecies, besideSettings>>

\* input onChange: setNewSpecies(prev => ({...prev, [color]: e.target.value}))
setNewSpecies ==
    \E color \in ColorKeys, text \in Texts :
        /\ ~mappingLoading
        /\ newSpecies' = [newSpecies EXCEPT ![color] = text]
        /\ UNCHANGED <<mappingResponse, mapping, mappingLoading, besideSettings>>

\* the "+" button and the Enter key
handleAddSpecies ==
    \E color \in ColorKeys :
        LET species == Trim(newSpecies[color])
        IN /\ ~mappingLoading
           /\ IF species = <<>> \/ Includes(mapping[color], species)
              THEN UNCHANGED <<mapping, newSpecies>>
              ELSE /\ mapping' = [mapping EXCEPT ![color] = Append(@, species)]
                   /\ newSpecies' = [newSpecies EXCEPT ![color] = <<>>]
           /\ UNCHANGED <<mappingResponse, mappingLoading, besideSettings>>

\* a click on the chip of a species of a color
handleRemoveSpecies ==
    \E color \in ColorKeys :
        \E species \in Range(mapping[color]) :
            /\ ~mappingLoading
            /\ mapping' = [mapping EXCEPT ![color] = SelectSeq(@, LAMBDA s : s # species)]
            /\ UNCHANGED <<mappingResponse, newSpecies, mappingLoading, besideSettings>>

MappingNext == LoadMapping \/ setNewSpecies \/ handleAddSpecies \/ handleRemoveSpecies

(***************************************************************************)
(* FusionCard: the survey selects and the request of handleGenerate        *)
(***************************************************************************)
MaxSurveys == 2

\* droneSurveys and acousticSurveys, the surveys offered by the two selects
droneSurveys == {[id |-> n] : n \in 1..MaxSurveys}

acousticSurveys == {[id |-> n] : n \in 1..MaxSurveys}

\* the body of GET /api/fusion/report for a pair of surveys: the counts of
\* the pair, which tell the reports of two pairs apart
FusionStore(visual_survey_id, acoustic_survey_id) ==
    [visual_counts |-> [c \in {"white_birds"} |-> visual_survey_id],
     acoustic_counts |-> [sp \in {"Great Egret"} |-> acoustic_survey_id],
     species_color_mapping |-> <<[key |-> "white", value |-> <<"Great Egret">>]>>]

canGenerate == selectedDroneSurvey # Null /\ selectedAcousticSurvey # Null

\* useState of FusionCard
GenerateInit ==
    /\ selectedDroneSurvey = Null
    /\ selectedAcousticSurvey = Null
    /\ fusionInFlight = {}
    /\ fusionLoading = FALSE
    /\ fusionError = Null

GenerateIdle ==
    /\ selectedDroneSurvey = Null
    /\ selectedAcousticSurvey = Null
    /\ fusionInFlight = {}
    /\ fusionLoading = FALSE
    /\ fusionError = Null

\* the drone survey select: the survey of the option, null for the empty
\* option, and the report cleared
selectDroneSurvey ==
    \E survey \in droneSurveys \cup {Null} :
        /\ survey # selectedDroneSurvey
        /\ selectedDroneSurvey' = survey
        /\ report' = Null
        /\ speciesInferences' = SpeciesInferences(Null)
        /\ UNCHANGED <<selectedAcousticSurvey, fusionInFlight, fusionLoading, fusionError,
                       besideGenerate>>

\* the acoustic survey select
selectAcousticSurvey ==
    \E survey \in acousticSurveys \cup {Null} :
        /\ survey # selectedAcousticSurvey
        /\ selectedAcousticSurvey' = survey
        /\ report' = Null
        /\ speciesInferences' = SpeciesInferences(Null)
        /\ UNCHANGED <<selectedDroneSurvey, fusionInFlight, fusionLoading, fusionError,
                       besideGenerate>>

\* handleGenerate up to its await fetch(url); the button is disabled while
\* loading
handleGenerate ==
    /\ canGenerate
    /\ ~fusionLoading
    /\ fusionLoading' = TRUE
    /\ fusionError' = Null
    /\ fusionInFlight' = fusionInFlight \cup
           {[visual_survey_id |-> selectedDroneSurvey.id,
             acoustic_survey_id |-> selectedAcousticSurvey.id]}
    /\ UNCHANGED <<selectedDroneSurvey, selectedAcousticSurvey, report, speciesInferences,
                   besideGenerate>>

\* handleGenerate from its await on: setReport(data) of an ok response, or
\* setError of the catch, and setLoading(false)
handleGenerateSettled ==
    \E request \in fusionInFlight, ok \in BOOLEAN :
        LET data == FusionStore(request.visual_survey_id, request.acoustic_survey_id)
        IN /\ fusionInFlight' = fusionInFlight \ {request}
           /\ report' = IF ok THEN InferredReport(data) ELSE report
           /\ speciesInferences' = IF ok THEN SpeciesInferences(data) ELSE speciesInferences
           /\ fusionError' = IF ok THEN fusionError ELSE "Failed to generate fusion report"
           /\ fusionLoading' = FALSE
           /\ UNCHANGED <<selectedDroneSurvey, selectedAcousticSurvey, besideGenerate>>

GenerateNext ==
    selectDroneSurvey \/ selectAcousticSurvey \/ handleGenerate \/ handleGenerateSettled

(***************************************************************************)
(* Dashboard: the stations and survey areas of the map selected, and the   *)
(* ARU view of the InspectorPanel.  The time filter stays at 7 days and    *)
(* the survey filter is set by handleSelectARU only; the effect of the     *)
(* survey view (allDetections) is left out.                                *)
(***************************************************************************)
MaxInFlight == 2

\* filterDays={filterMode === '7d' ? 7 : 30}, filterMode being '7d'
filterDays == 7

\* the surveys prop of the map: the surveys with an area
surveys == {[id |-> n] : n \in 1..MaxSurveys}

\* acoustic stores with recorder 1 of survey 1 next to recorder 2 of survey
\* 2, or next to a legacy detection without aru_id
StationStores ==
    {<<[id |-> 1, lat |-> 0, lon |-> 0, timestamp |-> 1, aru_id |-> 1, survey_id |-> 1],
       [id |-> 2, lat |-> 0, lon |-> 300, timestamp |-> 0, aru_id |-> 2, survey_id |-> MaxSurveys]>>,
     <<[id |-> 1, lat |-> 0, lon |-> 0, timestamp |-> 1, aru_id |-> 1, survey_id |-> 1],
       [id |-> 2, lat |-> 0, lon |-> 300, timestamp |-> 0, survey_id |-> 1]>>}

\* the body of GET /api/arus/<aru_id>/detections?days=&survey_ids=: the
\* detections of the recorder in the surveys asked for, in all when none is
IsOfAru(d, aru_id, survey_ids) ==
    /\ HasAruId(d)
    /\ d.aru_id = aru_id
    /\ survey_ids = <<>> \/ d.survey_id \in Range(survey_ids)

AruDetections(aru_id, survey_ids) ==
    SelectSeq(serverAcoustic, LAMBDA d : IsOfAru(d, aru_id, survey_ids))

RECURSIVE Ascending(_)
Ascending(ids) ==
    IF ids = {} THEN <<>>
    ELSE LET least == CHOOSE x \in ids : \A y \in ids : x <= y
         IN <<least>> \o Ascending(ids \ {least})

\* Object.values(surveys) of the effect: one entry per survey_id of the
\* data with its count, integer keys in ascending order
SurveysOf(data) ==
    LET with == {i \in DOMAIN data : "survey_id" \in DOMAIN data[i] /\ data[i].survey_id # 0}
        ids == Ascending({data[i].survey_id : i \in with})
    IN [k \in DOMAIN ids |->
           [id |-> ids[k],
            count |-> Cardinality({i \in with : data[i].survey_id = ids[k]})]]

\* Math.max(...surveyIds)
MaxOf(ids) == CHOOSE x \in ids : \A y \in ids : y <= x

\* the Dashboard over a store with stations
SelectInit ==
    /\ serverVisual = <<[id |-> 1, lat |-> 0, lon |-> 0, timestamp |-> 1]>>
    /\ serverAcoustic \in StationStores
    /\ visualDetections = <<>>
    /\ acousticDetections = <<>>
    /\ visualData = <<>>
    /\ acousticData = <<>>
    /\ selectedVisual = Null
    /\ selectedAcoustic = Null
    /\ selectedARU = Null
    /\ selectedSurvey = Null
    /\ isInspectorOpen = FALSE
    /\ sourceData = <<>>
    /\ correlations = <<>>
    /\ selectedIsLive = FALSE
    /\ aruStations = <<>>
    /\ renderError = "none"
    /\ selectedSurveyIds = <<>>
    /\ aruInFlight = {}
    /\ filteredDetections = <<>>
    /\ availableSurveys = <<>>

\* no station is selected
AruIdle ==
    /\ selectedSurveyIds = <<>>
    /\ aruInFlight = {}
    /\ filteredDetections = <<>>
    /\ availableSurveys = <<>>

\* the argument of onSelectARU for a station of the map
AruData(station) ==
    [f \in {"id", "detectionCount"} \cup ({"lat", "lon", "aru_id"} \cap DOMAIN station) |->
        CASE f = "detectionCount" -> Len(station.detections)
          [] OTHER -> station[f]]

\* the survey filter after handleSelectARU: the latest survey of the
\* recorder's detections when it has some
AutoSelected(aruData) ==
    LET relevantDetections ==
            SelectSeq(acousticData, LAMBDA d : HasAruId(d) /\ d.aru_id = aruData.aru_id)
        surveyIds == {relevantDetections[i].survey_id :
                          i \in {j \in DOMAIN relevantDetections :
                                     "survey_id" \in DOMAIN relevantDetections[j]}}
    IN IF HasAruId(aruData) /\ surveyIds # {} THEN <<MaxOf(surveyIds)>>
       ELSE selectedSurveyIds

\* a click on a station of the map: Dashboard.handleSelectARU, and with the
\* new selectedARU the effect of the InspectorPanel, which sends a request
\* unless the station has no numeric aru_id
handleSelectARU ==
    \E i \in DOMAIN aruStations :
        LET aruData == AruData(aruStations[i])
        IN /\ Mounted
           /\ HasAruId(aruData) => Cardinality(aruInFlight) < MaxInFlight
           /\ selectedARU' = aruData
           /\ selectedVisual' = Null
           /\ selectedAcoustic' = Null
           /\ selectedSurvey' = Null
           /\ isInspectorOpen' = TRUE
           /\ Rerender(Null, Null)
           /\ selectedSurveyIds' = AutoSelected(aruData)
           /\ aruInFlight' = IF HasAruId(aruData)
                             THEN aruInFlight \cup {[aru_id |-> aruData.aru_id,
                                                     days |-> filterDays,
                                                     survey_ids |-> AutoSelected(aruData)]}
                             ELSE aruInFlight
           /\ UNCHANGED <<filteredDetections, availableSurveys, visualData, acousticData,
                          storeVars, fusionVars, mapVars, besideAru>>

\* a click on the area of a survey
handleSelectSurvey ==
    \E survey \in surveys :
        /\ Mounted
        /\ selectedSurvey' = survey
        /\ selectedVisual' = Null
        /\ selectedAcoustic' = Null
        /\ selectedARU' = Null
        /\ isInspectorOpen' = TRUE
        /\ Rerender(Null, Null)
        /\ UNCHANGED <<visualData, acousticData, storeVars, fusionVars, mapVars, sideVars>>

\* a request of the effect settles: an array is shown with its surveys,
\* another body empties the list, a rejection is logged
aruDetectionsSettled ==
    \E request \in aruInFlight, outcome \in {"array", "object", "rejected"} :
        LET data == AruDetections(request.aru_id, request.survey_ids)
        IN /\ Mounted
           /\ aruInFlight' = aruInFlight \ {request}
           /\ filteredDetections' = CASE outcome = "array" -> data
                                      [] outcome = "object" -> <<>>
                                      [] OTHER -> filteredDetections
           /\ availableSurveys' = IF outcome = "array" THEN SurveysOf(data)
                                  ELSE availableSurveys
           /\ UNCHANGED <<selectedSurveyIds, pageVars, besideAru>>

(***************************************************************************)
(* BirdJet prototype: one audio file analysed by POST /analyze             *)
(***************************************************************************)
MaxTimers == 2

\* the audio files that can be dropped or selected
AudioFiles == {[name |-> "a.wav"], [name |-> "b.wav"]}

\* useState of BirdJet
BirdJetInit ==
    /\ audioFile = Null
    /\ analysisStatus = "idle"
    /\ analysisResults = Null
    /\ errorMessage = ""
    /\ analyzeInFlight = {}
    /\ resetTimers = 0

BirdJetIdle ==
    /\ audioFile = Null
    /\ analysisStatus = "idle"
    /\ analysisResults = Null
    /\ errorMessage = ""
    /\ analyzeInFlight = {}
    /\ resetTimers = 0

\* a file dropped or selected; drop zone and input are disabled while
\* processing
handleAudioUpload ==
    \E file \in AudioFiles :
        /\ analysisStatus # "processing"
        /\ audioFile' = file
        /\ analysisResults' = Null
        /\ errorMessage' = ""
        /\ UNCHANGED <<analysisStatus, analyzeInFlight, resetTimers, besideBirdJet>>

\* the remove button of the file, disabled while processing
removeAudioFile ==
    /\ audioFile # Null
    /\ analysisStatus # "processing"
    /\ audioFile' = Null
    /\ analysisResults' = Null
    /\ errorMessage' = ""
    /\ UNCHANGED <<analysisStatus, analyzeInFlight, resetTimers, besideBirdJet>>

\* analyzeAudio up to its await fetch; the button is there with a file and
\* is disabled while processing
analyzeAudio ==
    /\ audioFile # Null
    /\ analysisStatus # "processing"
    /\ Cardinality(analyzeInFlight) < MaxInFlight
    /\ analysisStatus' = "processing"
    /\ errorMessage' = ""
    /\ analyzeInFlight' = analyzeInFlight \cup {audioFile}
    /\ UNCHANGED <<audioFile, analysisResults, resetTimers, besideBirdJet>>

\* analyzeAudio from its await on: the result of an ok response, or the
\* catch, which sets the reset timer
analyzeAudioSettled ==
    \E file \in analyzeInFlight, ok \in BOOLEAN :
        /\ ~ok => resetTimers < MaxTimers
        /\ analyzeInFlight' = analyzeInFlight \ {file}
        /\ analysisResults' = IF ok THEN [file |-> file] ELSE analysisResults
        /\ analysisStatus' = IF ok THEN "success" ELSE "error"
        /\ errorMessage' = IF ok THEN errorMessage ELSE "Analysis failed"
        /\ resetTimers' = IF ok THEN resetTimers ELSE resetTimers + 1
        /\ UNCHANGED <<audioFile, besideBirdJet>>

\* a reset timer fires, 5 seconds after the catch that set it
resetTimerFires ==
    /\ resetTimers > 0
    /\ resetTimers' = resetTimers - 1
    /\ analysisStatus' = "idle"
    /\ errorMessage' = ""
    /\ UNCHANGED <<audioFile, analysisResults, analyzeInFlight, besideBirdJet>>

BirdJetNext ==
    \/ handleAudioUpload
    \/ removeAudioFile
    \/ analyzeAudio
    \/ analyzeAudioSettled
    \/ resetTimerFires

(***************************************************************************)
(* NewSurveyModal: the files of a survey, the ARU of each audio file and   *)
(* the import request.  A file name is the sequence of its characters;     *)
(* audioAruMap is an object keyed by the JavaScript index (from 0) of a    *)
(* file in audioFiles.  The modal is open; its "new ARU" form, survey type *)
(* and survey date are left out.                                           *)
(***************************************************************************)
MaxFiles == 2

FileA == [name |-> <<"a", ".", "W", "A", "V">>]

FileB == [name |-> <<"b", ".", "m", "p", "3">>]

FileN == [name |-> <<"n", ".", "t", "x", "t">>]

FileO == [name |-> <<"o", ".", "t", "i", "f">>]

\* e.target.files of the audio input and of the orthomosaic input
AudioSelections == {<<FileA>>, <<FileB>>, <<FileA, FileB>>, <<FileN>>, <<FileN, FileB>>}

OrthomosaicSelections == {<<FileO>>, <<FileN>>}

\* the ARUs GET /api/arus returns
ServerArus == <<[id |-> 1], [id |-> 2]>>

SurveyNames == {"", "survey"}

LowerChar(c) ==
    CASE c = "W" -> "w"
      [] c = "A" -> "a"
      [] c = "V" -> "v"
      [] OTHER -> c

\* String.prototype.toLowerCase
ToLowerCase(text) == [i \in DOMAIN text |-> LowerChar(text[i])]

\* String.prototype.endsWith
EndsWith(text, suffix) ==
    /\ Len(text) >= Len(suffix)
    /\ SubSeq(text, Len(text) - Len(suffix) + 1, Len(text)) = suffix

IsAudio(f) ==
    \/ EndsWith(ToLowerCase(f.name), <<".", "w", "a", "v">>)
    \/ EndsWith(ToLowerCase(f.name), <<".", "m", "p", "3">>)
    \/ EndsWith(ToLowerCase(f.name), <<".", "f", "l", "a", "c">>)

IsOrthomosaic(f) ==
    \/ EndsWith(ToLowerCase(f.name), <<".", "t", "i", "f">>)
    \/ EndsWith(ToLowerCase(f.name), <<".", "t", "i", "f", "f">>)

\* parseInt of the value of an option: the id of an ARU, NaN for ""
ParseInt(value) ==
    IF \E n \in 0..9 : ToString(n) = value THEN CHOOSE n \in 0..9 : ToString(n) = value
    ELSE NaN

\* {...object, [key]: value}
WithKey(object, key, value) ==
    [k \in DOMAIN object \cup {key} |-> IF k = key THEN value ELSE object[k]]

\* the object without the keys
WithoutKeys(object, keys) == [k \in DOMAIN object \ keys |-> object[k]]

\* delete newMap[index]
DeleteKey(object, index) == WithoutKeys(object, {index})

\* array.filter((_, i) => i !== index), index counted from 0
RemoveAt(array, index) ==
    [i \in 1..(Len(array) - 1) |-> IF i <= index THEN array[i] ELSE array[i + 1]]

\* !audioAruMap[i] is false
Truthy(object, key) == key \in DOMAIN object /\ object[key] # NaN /\ object[key] # 0

NoError == [message |-> ""]

\* useState of NewSurveyModal
ModalInit ==
    /\ surveyName = ""
    /\ orthomosaicFiles = <<>>
    /\ audioFiles = <<>>
    /\ audioAruMap = <<>>
    /\ availableArus = <<>>
    /\ isUploading = FALSE
    /\ uploadError = NoError
    /\ uploadInFlight = 0

ModalIdle ==
    /\ surveyName = ""
    /\ orthomosaicFiles = <<>>
    /\ audioFiles = <<>>
    /\ audioAruMap = <<>>
    /\ availableArus = <<>>
    /\ isUploading = FALSE
    /\ uploadError = NoError
    /\ uploadInFlight = 0

\* fetchArus with an ok response
fetchArus ==
    /\ availableArus # ServerArus
    /\ availableArus' = ServerArus
    /\ UNCHANGED <<surveyName, orthomosaicFiles, audioFiles, audioAruMap, isUploading,
                   uploadError, uploadInFlight, besideModal>>

\* the name input
setName ==
    \E text \in SurveyNames :
        /\ text # surveyName
        /\ surveyName' = text
        /\ UNCHANGED <<orthomosaicFiles, audioFiles, audioAruMap, availableArus, isUploading,
                       uploadError, uploadInFlight, besideModal>>

handleOrthomosaicChange ==
    \E files \in OrthomosaicSelections :
        LET validFiles == SelectSeq(files, IsOrthomosaic)
        IN /\ Len(orthomosaicFiles) + Len(validFiles) <= MaxFiles
           /\ orthomosaicFiles' = orthomosaicFiles \o validFiles
           /\ UNCHANGED <<surveyName, audioFiles, audioAruMap, availableArus, isUploading,
                          uploadError, uploadInFlight, besideModal>>

removeOrthomosaic ==
    \E index \in 0..(Len(orthomosaicFiles) - 1) :
        /\ orthomosaicFiles' = RemoveAt(orthomosaicFiles, index)
        /\ UNCHANGED <<surveyName, audioFiles, audioAruMap, availableArus, isUploading,
                       uploadError, uploadInFlight, besideModal>>

\* the new files get the first ARU when there are ARUs
AutoAssigned(startIndex, count) ==
    [k \in DOMAIN audioAruMap \cup startIndex..(startIndex + count - 1) |->
        IF k >= startIndex /\ k < startIndex + count THEN availableArus[1].id
        ELSE audioAruMap[k]]

handleAudioChange ==
    \E files \in AudioSelections :
        LET validFiles == SelectSeq(files, IsAudio)
            startIndex == Len(audioFiles)
        IN /\ Len(audioFiles) + Len(validFiles) <= MaxFiles
           /\ audioFiles' = audioFiles \o validFiles
           /\ audioAruMap' = IF Len(availableArus) > 0
                             THEN AutoAssigned(startIndex, Len(validFiles))
                             ELSE audioAruMap
           /\ UNCHANGED <<surveyName, orthomosaicFiles, availableArus, isUploading,
                          uploadError, uploadInFlight, besideModal>>

removeAudio ==
    \E index \in 0..(Len(audioFiles) - 1) :
        /\ audioFiles' = RemoveAt(audioFiles, index)
        /\ audioAruMap' = DeleteKey(audioAruMap, index)
        /\ UNCHANGED <<surveyName, orthomosaicFiles, availableArus, isUploading,
                       uploadError, uploadInFlight, besideModal>>

\* the ARU select of a file: an ARU, or the empty option
setAruForAudio ==
    \E audioIndex \in 0..(Len(audioFiles) - 1) :
        \E aruId \in {""} \cup {ToString(availableArus[i].id) : i \in DOMAIN availableArus} :
            /\ audioAruMap' = WithKey(audioAruMap, audioIndex, ParseInt(aruId))
            /\ UNCHANGED <<surveyName, orthomosaicFiles, audioFiles, availableArus,
                           isUploading, uploadError, uploadInFlight, besideModal>>

\* the audio positions handleSubmit finds without ARU
Unassigned == {i \in 0..(Len(audioFiles) - 1) : ~Truthy(audioAruMap, i)}

\* the checks without the one of the ARUs
SubmitError_noAruCheck ==
    IF surveyName = "" THEN [message |-> "Please provide a survey name."]
    ELSE IF Len(orthomosaicFiles) = 0 /\ Len(audioFiles) = 0
    THEN [message |-> "Please upload at least one file."]
    ELSE NoError

\* the message of handleSubmit's checks, NoError when they pass
SubmitError ==
    IF surveyName = "" THEN [message |-> "Please provide a survey name."]
    ELSE IF Len(orthomosaicFiles) = 0 /\ Len(audioFiles) = 0
    THEN [message |-> "Please upload at least one file."]
    ELSE IF Unassigned # {}
    THEN [message |-> "Please select an ARU for",
          file |-> audioFiles[1 + CHOOSE i \in Unassigned : \A j \in Unassigned : i <= j].name]
    ELSE NoError

\* handleSubmit up to its await fetch; the submit button is disabled while
\* uploading
handleSubmit ==
    /\ ~isUploading
    /\ IF SubmitError # NoError
       THEN /\ uploadError' = SubmitError
            /\ UNCHANGED <<isUploading, uploadInFlight>>
       ELSE /\ isUploading' = TRUE
            /\ uploadError' = NoError
            /\ uploadInFlight' = uploadInFlight + 1
    /\ UNCHANGED <<surveyName, orthomosaicFiles, audioFiles, audioAruMap, availableArus,
                   besideModal>>

\* handleSubmit from its await on: the form is reset after an ok response,
\* the error is shown otherwise, and setIsUploading(false)
handleSubmitSettled ==
    \E ok \in BOOLEAN :
        /\ uploadInFlight > 0
        /\ uploadInFlight' = uploadInFlight - 1
        /\ surveyName' = IF ok THEN "" ELSE surveyName
        /\ orthomosaicFiles' = IF ok THEN <<>> ELSE orthomosaicFiles
        /\ audioFiles' = IF ok THEN <<>> ELSE audioFiles
        /\ audioAruMap' = IF ok THEN <<>> ELSE audioAruMap
        /\ uploadError' = IF ok THEN uploadError ELSE [message |-> "Upload failed"]
        /\ isUploading' = FALSE
        /\ UNCHANGED <<availableArus, besideModal>>

ModalNext ==
    \/ fetchArus
    \/ setName
    \/ handleOrthomosaicChange
    \/ removeOrthomosaic
    \/ handleAudioChange
    \/ removeAudio
    \/ setAruForAudio
    \/ handleSubmit
    \/ handleSubmitSettled

(***************************************************************************)
(* FusionInsightsPanel: the report of a visual survey with an acoustic     *)
(* survey or an ARU.  A prop that is not given is 0, which the effect's    *)
(* tests take like undefined.                                              *)
(***************************************************************************)
\* the props the parent may render the panel with
InsightsProps ==
    [isOpen : BOOLEAN, visualSurveyId : {0, 1}, acousticSurveyId : {0, 1}, aruId : {0, 1}]

\* the body of GET /api/fusion/report for the url of the effect
InsightsStore(request) ==
    [visual_counts |-> [c \in {"white_birds"} |-> request.visual_survey_id],
     acoustic_counts |-> [sp \in {"Great Egret"} |->
                              request.acoustic_survey_id + 2 * request.aru_id],
     inferences |-> <<>>]

\* useState of FusionInsightsPanel, rendered closed
InsightsInit ==
    /\ insightsProps = [isOpen |-> FALSE, visualSurveyId |-> 0, acousticSurveyId |-> 0,
                        aruId |-> 0]
    /\ insightsLoading = TRUE
    /\ insightsReport = Null
    /\ insightsError = Null
    /\ insightsInFlight = {}

InsightsIdle ==
    /\ insightsProps = [isOpen |-> FALSE, visualSurveyId |-> 0, acousticSurveyId |-> 0,
                        aruId |-> 0]
    /\ insightsLoading = TRUE
    /\ insightsReport = Null
    /\ insightsError = Null
    /\ insightsInFlight = {}

\* the effect goes on to its fetch
Fetches(props) ==
    /\ props.isOpen /\ props.visualSurveyId # 0
    /\ props.acousticSurveyId # 0 \/ props.aruId # 0

\* the parent renders the panel with other props, and the effect runs: it
\* returns for a closed panel, without visual survey or without acoustic
\* survey and ARU, and sends a request otherwise
renderInsights ==
    \E props \in InsightsProps :
        /\ props # insightsProps
        /\ insightsProps' = props
        /\ IF Fetches(props)
           THEN /\ insightsLoading' = TRUE
                /\ insightsError' = Null
                /\ insightsInFlight' = insightsInFlight \cup
                       {[visual_survey_id |-> props.visualSurveyId,
                         acoustic_survey_id |-> props.acousticSurveyId,
                         aru_id |-> props.aruId]}
           ELSE UNCHANGED <<insightsLoading, insightsError, insightsInFlight>>
        /\ UNCHANGED <<insightsReport, besideInsights>>

\* a request settles: setReport(data), or setError of the catch, and
\* setLoading(false)
insightsSettled ==
    \E request \in insightsInFlight, ok \in BOOLEAN :
        /\ insightsInFlight' = insightsInFlight \ {request}
        /\ insightsReport' = IF ok THEN InsightsStore(request) ELSE insightsReport
        /\ insightsError' = IF ok THEN insightsError
                            ELSE [message |-> "Failed to fetch fusion report"]
        /\ insightsLoading' = FALSE
        /\ UNCHANGED <<insightsProps, besideInsights>>

InsightsNext == renderInsights \/ insightsSettled

\* the components next to the page are not opened
SideIdle == MappingIdle /\ GenerateIdle /\ AruIdle /\ BirdJetIdle /\ ModalIdle /\ InsightsIdle

(***************************************************************************)
(* Specifications                                                          *)
(***************************************************************************)
\* FusionCard on its own, the rest of the page left alone
InitFusion == FusionInit /\ DashIdle /\ SideIdle

SpecFusion == InitFusion /\ [][FusionNext]_vars

\* Dashboard with its map and inspector, FusionCard left alone
InitInspector == DashInit /\ FusionIdle /\ SideIdle

SpecInspector == InitInspector /\ [][DashNext]_vars

\* the same over field data with recorder ids and incomplete records
InitMap == MapInit /\ FusionIdle /\ SideIdle

SpecMap == InitMap /\ [][DashNext]_vars

\* the whole page: the FusionCard next to the map and the inspector
InitPage == DashInit /\ PageFusionInit /\ SideIdle

PageNext == FusionNext \/ DashNext

SpecPage == InitPage /\ [][PageNext]_vars

\* the species color mapping of the settings, the page left alone
InitMapping ==
    /\ MappingInit /\ FusionIdle /\ DashIdle
    /\ GenerateIdle /\ AruIdle /\ BirdJetIdle /\ ModalIdle /\ InsightsIdle

SpecMapping == InitMapping /\ [][MappingNext]_vars

\* the FusionCard with its survey selects and its request
InitGenerate ==
    /\ GenerateInit /\ FusionIdle /\ DashIdle
    /\ MappingIdle /\ AruIdle /\ BirdJetIdle /\ ModalIdle /\ InsightsIdle

SpecGenerate == InitGenerate /\ [][GenerateNext]_vars

\* the Dashboard with all that can be selected on its map
InitSelect ==
    /\ SelectInit /\ FusionIdle
    /\ MappingIdle /\ GenerateIdle /\ BirdJetIdle /\ ModalIdle /\ InsightsIdle

SelectNext == DashNext \/ handleSelectARU \/ handleSelectSurvey \/ aruDetectionsSettled

SpecSelect == InitSelect /\ [][SelectNext]_vars

\* the BirdJet prototype page
InitBirdJet ==
    /\ BirdJetInit /\ FusionIdle /\ DashIdle
    /\ MappingIdle /\ GenerateIdle /\ AruIdle /\ ModalIdle /\ InsightsIdle

SpecBirdJet == InitBirdJet /\ [][BirdJetNext]_vars

\* the NewSurveyModal
InitModal ==
    /\ ModalInit /\ FusionIdle /\ DashIdle
    /\ MappingIdle /\ GenerateIdle /\ AruIdle /\ BirdJetIdle /\ InsightsIdle

SpecModal == InitModal /\ [][ModalNext]_vars

\* the FusionInsightsPanel; every fetch it issued settles in the end
InitInsights ==
    /\ InsightsInit /\ FusionIdle /\ DashIdle
    /\ MappingIdle /\ GenerateIdle /\ AruIdle /\ BirdJetIdle /\ ModalIdle

SpecInsights == InitInsights /\ [][InsightsNext]_vars /\ WF_vars(insightsSettled)

(***************************************************************************)
(* What the properties are stated in: the anchor of the inspector, the     *)
(* correlation window and rounding as relations, and the counts of a       *)
(* report read off the report itself.                                      *)
(***************************************************************************)
HasAnchor == selectedVisual # Null \/ selectedAcoustic # Null

Anchor == IF selectedVisual # Null THEN selectedVisual ELSE selectedAcoustic

\* the detections of the other modality than the anchor's
OppositeStore == IF selectedVisual # Null THEN serverAcoustic ELSE serverVisual

DistSquared(a, d) == (a.lat - d.lat) * (a.lat - d.lat) + (a.lon - d.lon) * (a.lon - d.lon)

MillisBetween(a, d) == IF a.timestamp < d.timestamp THEN d.timestamp - a.timestamp
                       ELSE a.timestamp - d.timestamp

\* strictly closer than 500 m and strictly less than 30 min apart
Near(a, d) == DistSquared(a, d) < 500 * 500 /\ MillisBetween(a, d) < 1800000

\* r is n / d rounded to the nearest integer, halves upwards (d > 0)
RoundsTo(n, d, r) == 2 * d * r <= 2 * n + d /\ 2 * n + d < 2 * d * (r + 1)

VisualCountOf(rep, color) ==
    IF "visual_counts" \in DOMAIN rep /\ (color \o "_birds") \in DOMAIN rep.visual_counts
    THEN rep.visual_counts[color \o "_birds"] ELSE 0

AcousticCountOf(rep, species) ==
    IF "acoustic_counts" \in DOMAIN rep /\ species \in DOMAIN rep.acoustic_counts
    THEN rep.acoustic_counts[species] ELSE 0

MappingOf(rep) ==
    IF rep # Null /\ "species_color_mapping" \in DOMAIN rep THEN rep.species_color_mapping ELSE <<>>

\* the candidate species of a color key of the mapping (keys are unique)
CandidatesOf(rep, color) ==
    LET m == MappingOf(rep)
    IN m[CHOOSE i \in DOMAIN m : m[i].key = color].value

IndexIn(list, x) == CHOOSE i \in DOMAIN list : list[i] = x

RECURSIVE SumOfAudio(_)
SumOfAudio(breakdown) ==
    IF breakdown = <<>> THEN 0
    ELSE breakdown[1].audioCount + SumOfAudio(SubSeq(breakdown, 2, Len(breakdown)))

RECURSIVE SumOfProbability(_)
SumOfProbability(breakdown) ==
    IF breakdown = <<>> THEN 0
    ELSE breakdown[1].probability + SumOfProbability(SubSeq(breakdown, 2, Len(breakdown)))

(***************************************************************************)
(* Properties of the correlation (SpecInspector)                           *)
(***************************************************************************)
\* C1: the correlations of the selected detection are exactly the members of
\* the opposite-modality collection it was correlated against strictly closer than 500 m and strictly
\* less than 30 min from it: every such member is in the result once (no
\* cap), and no other member, so none at exactly 500 m or exactly 30 min.
C1_CorrelationsExact ==
    HasAnchor =>
        /\ sourceData \in {<<>>, OppositeStore}
        /\ \A i \in DOMAIN sourceData :
              Near(Anchor, sourceData[i])
                  <=> \E j \in DOMAIN correlations : correlations[j].data = sourceData[i]
        /\ Len(correlations) = Cardinality({i \in DOMAIN sourceData : Near(Anchor, sourceData[i])})
        /\ \A j \in DOMAIN correlations :
              correlations[j].type = (IF selectedVisual # Null THEN "acoustic" ELSE "visual")

\* a member at exactly 500 m and inside the time window is left out while
\* another member is returned
C1_Witness ==
    /\ HasAnchor
    /\ Len(correlations) >= 1
    /\ \E i \in DOMAIN sourceData :
          /\ DistSquared(Anchor, sourceData[i]) = 500 * 500
          /\ MillisBetween(Anchor, sourceData[i]) < 1800000
          /\ \A j \in DOMAIN correlations : correlations[j].data # sourceData[i]

\* C2 (as claimed): the correlations are ordered ascending by distance, and
\* two results with equal distance are ordered ascending by time delta.
C2_SortedByDistThenTime ==
    \A a, b \in DOMAIN correlations :
        a < b =>
            /\ correlations[a].dist <= correlations[b].dist
            /\ (correlations[a].dist = correlations[b].dist
                    => correlations[a].timeDiff <= correlations[b].timeDiff)

\* C2 (amended): the correlations are ordered ascending by distance, and two
\* results with equal distance keep the order they have in the input
\* collection.
C2_SortedByDistStable ==
    \A a, b \in DOMAIN correlations :
        a < b =>
            /\ correlations[a].dist <= correlations[b].dist
            /\ (correlations[a].dist = correlations[b].dist
                    => IndexIn(sourceData, correlations[a].data)
                           < IndexIn(sourceData, correlations[b].data))

\* two results at the same distance, the one with the larger time delta first
C2_Witness ==
    /\ Len(correlations) = 2
    /\ correlations[1].dist = correlations[2].dist
    /\ correlations[1].timeDiff > correlations[2].timeDiff

(***************************************************************************)
(* Properties of the species inference (SpecFusion)                        *)
(***************************************************************************)
\* C3: a color class whose drone count is 0 (its label missing from
\* visual_counts or mapped to 0) has no inference, whatever the acoustic
\* counts of its candidate species.
C3_ZeroDroneCountSkipped ==
    report # Null =>
        \A j \in DOMAIN speciesInferences :
            VisualCountOf(report, speciesInferences[j].colorClass) > 0

\* a report whose mapping has a color without drone detections but with
\* acoustic detections of a candidate species, next to a color that is emitted
C3_Witness ==
    /\ report # Null
    /\ Len(speciesInferences) = 1
    /\ \E i \in DOMAIN MappingOf(report) :
          /\ VisualCountOf(report, MappingOf(report)[i].key) = 0
          /\ \E k \in DOMAIN MappingOf(report)[i].value :
                AcousticCountOf(report, MappingOf(report)[i].value[k]) > 0

\* C4: the confidenceScore of an inference is
\* min(100, round(totalAudio / droneCount * 100)): 0 when totalAudio is 0,
\* 100 whenever totalAudio >= droneCount, and always within 0..100.
C4_ConfidenceScore ==
    \A j \in DOMAIN speciesInferences :
        LET inf == speciesInferences[j]
            total == inf.totalAudioDetections
        IN /\ inf.droneCount > 0
           /\ \/ /\ inf.confidenceScore < 100
                 /\ RoundsTo(total * 100, inf.droneCount, inf.confidenceScore)
              \/ /\ inf.confidenceScore = 100
                 /\ \E r \in 100..(total * 100 + 1) : RoundsTo(total * 100, inf.droneCount, r)
           /\ (total = 0 => inf.confidenceScore = 0)
           /\ (total >= inf.droneCount => inf.confidenceScore = 100)
           /\ inf.confidenceScore \in 0..100

\* a score that is rounded: 2 acoustic detections for 3 drone detections
C4_Witness ==
    \E j \in DOMAIN speciesInferences :
        /\ speciesInferences[j].confidenceScore = 67
        /\ speciesInferences[j].totalAudioDetections = 2
        /\ speciesInferences[j].droneCount = 3

\* C5: unidentified = droneCount - min(droneCount, totalAudio): never
\* negative, 0 whenever totalAudio >= droneCount, and
\* unidentified + min(droneCount, totalAudio) = droneCount.
C5_Unidentified ==
    \A j \in DOMAIN speciesInferences :
        LET inf == speciesInferences[j]
            total == inf.totalAudioDetections
            explained == IF total <= inf.droneCount THEN total ELSE inf.droneCount
        IN /\ inf.unidentified = inf.droneCount - explained
           /\ inf.unidentified >= 0
           /\ (total >= inf.droneCount => inf.unidentified = 0)
           /\ inf.unidentified + explained = inf.droneCount

\* more acoustic than drone detections in one color, fewer in the other
C5_Witness ==
    /\ \E j \in DOMAIN speciesInferences :
          /\ speciesInferences[j].totalAudioDetections > speciesInferences[j].droneCount
          /\ speciesInferences[j].unidentified = 0
    /\ \E j \in DOMAIN speciesInferences :
          /\ speciesInferences[j].totalAudioDetections > 0
          /\ speciesInferences[j].unidentified > 0

\* C6: each species of a breakdown has
\* probability = round(audioCount / totalAudio * 100) with totalAudio the sum
\* of the audioCounts of that breakdown; each is rounded on its own and
\* nothing is renormalized, so the probabilities need not add up to 100.
C6_ProbabilityRounded ==
    \A j \in DOMAIN speciesInferences :
        LET breakdown == speciesInferences[j].species
        IN /\ speciesInferences[j].totalAudioDetections = SumOfAudio(breakdown)
           /\ \A k \in DOMAIN breakdown :
                 RoundsTo(breakdown[k].audioCount * 100, SumOfAudio(breakdown),
                          breakdown[k].probability)

\* three species with one detection each: 33 + 33 + 33 = 99
C6_Witness ==
    \E j \in DOMAIN speciesInferences :
        /\ Len(speciesInferences[j].species) = 3
        /\ SumOfProbability(speciesInferences[j].species) = 99

\* C7: the breakdown of a color holds exactly the candidate species of that
\* color whose acoustic count is > 0, each once and with its acoustic count;
\* a candidate with a zero or missing count is not in it, nor any species
\* that is not a candidate of the color.
C7_BreakdownMembers ==
    \A j \in DOMAIN speciesInferences :
        LET breakdown == speciesInferences[j].species
            candidates == CandidatesOf(report, speciesInferences[j].colorClass)
        IN /\ {breakdown[k].species : k \in DOMAIN breakdown}
                 = {sp \in Range(candidates) : AcousticCountOf(report, sp) > 0}
           /\ \A k \in DOMAIN breakdown :
                 breakdown[k].audioCount = AcousticCountOf(report, breakdown[k].species)
           /\ \A k, l \in DOMAIN breakdown :
                 k # l => breakdown[k].species # breakdown[l].species

\* a color with three candidates: one with a missing count, one with a count
\* of 0 and one with a count > 0, the only one in the breakdown
C7_Witness ==
    \E j \in DOMAIN speciesInferences :
        LET candidates == CandidatesOf(report, speciesInferences[j].colorClass)
        IN /\ Len(candidates) = 3
           /\ Len(speciesInferences[j].species) = 1
           /\ "acoustic_counts" \in DOMAIN report
           /\ \E sp \in Range(candidates) : sp \notin DOMAIN report.acoustic_counts
           /\ \E sp \in Range(candidates) :
                 sp \in DOMAIN report.acoustic_counts /\ report.acoustic_counts[sp] = 0

\* C8: a breakdown is sorted descending by probability, and species with
\* equal probability are in the order of the color's candidate list.
C8_BreakdownSorted ==
    \A j \in DOMAIN speciesInferences :
        LET breakdown == speciesInferences[j].species
            candidates == CandidatesOf(report, speciesInferences[j].colorClass)
        IN \A a, b \in DOMAIN breakdown :
              a < b =>
                  /\ breakdown[a].probability >= breakdown[b].probability
                  /\ (breakdown[a].probability = breakdown[b].probability
                          => IndexIn(candidates, breakdown[a].species)
                                 < IndexIn(candidates, breakdown[b].species))

\* the last candidate sorted to the front of two candidates that tie
C8_Witness ==
    \E j \in DOMAIN speciesInferences :
        LET breakdown == speciesInferences[j].species
            candidates == CandidatesOf(report, speciesInferences[j].colorClass)
        IN /\ Len(breakdown) = 3
           /\ breakdown[1].species = candidates[3]
           /\ breakdown[2].probability = breakdown[3].probability
           /\ breakdown[1].probability > breakdown[2].probability

\* C9: the inferences are one record per color key of the mapping whose drone
\* count is > 0, in the insertion order of the keys.
C9_OnePerColorInKeyOrder ==
    LET m == MappingOf(report)
        keys == [i \in DOMAIN m |-> m[i].key]
        Counted(color) == VisualCountOf(report, color) > 0
    IN /\ [j \in DOMAIN speciesInferences |-> speciesInferences[j].colorClass]
             = SelectSeq(keys, Counted)
       /\ \A j \in DOMAIN speciesInferences :
             /\ speciesInferences[j].droneCount
                   = VisualCountOf(report, speciesInferences[j].colorClass)
             /\ speciesInferences[j].droneClass = speciesInferences[j].colorClass \o "_birds"

\* both colors emitted in key order, which is neither the order of the names
\* nor of the counts nor of the scores
C9_Witness ==
    /\ Len(speciesInferences) = 2
    /\ speciesInferences[1].colorClass = "white"
    /\ speciesInferences[2].colorClass = "black"
    /\ speciesInferences[1].droneCount < speciesInferences[2].droneCount
    /\ speciesInferences[1].confidenceScore > speciesInferences[2].confidenceScore

\* C10: with a report whose mapping is empty or missing the inferences are
\* the empty sequence, and the report holds the visual_counts and
\* acoustic_counts of the response as they were.
C10_EmptyMapping ==
    (report # Null /\ MappingOf(report) = <<>>) =>
        /\ speciesInferences = <<>>
        /\ report = fusionResponse
        /\ \A f \in {"visual_counts", "acoustic_counts"} :
              f \in DOMAIN fusionResponse
                  => f \in DOMAIN report /\ report[f] = fusionResponse[f]

\* a report without mapping whose drone and acoustic counts are not empty
C10_Witness ==
    /\ report # Null
    /\ "species_color_mapping" \notin DOMAIN report
    /\ "visual_counts" \in DOMAIN report
    /\ \E c \in DOMAIN report.visual_counts : report.visual_counts[c] > 0
    /\ "acoustic_counts" \in DOMAIN report
    /\ \E sp \in DOMAIN report.acoustic_counts : report.acoustic_counts[sp] > 0
    /\ speciesInferences = <<>>

\* C11: whatever the counts of the report (a color without drone detections,
\* candidates without acoustic detections or missing from acoustic_counts),
\* every inference is computed, and every number in it is a defined integer:
\* nothing is divided by a zero drone count (such a color has no inference),
\* a probability is only taken of a positive total, and with a total of 0
\* the score is 0 and there is no probability at all.
C11_DivisionGuard ==
    report # Null =>
        /\ Len(speciesInferences)
              = Cardinality({i \in DOMAIN MappingOf(report) :
                               VisualCountOf(report, MappingOf(report)[i].key) > 0})
        /\ \A j \in DOMAIN speciesInferences :
              LET inf == speciesInferences[j]
              IN /\ inf.droneCount \in Nat \ {0}
                 /\ inf.totalAudioDetections \in Nat
                 /\ inf.confidenceScore \in 0..100
                 /\ inf.unidentified \in 0..inf.droneCount
                 /\ \A k \in DOMAIN inf.species :
                       /\ inf.species[k].audioCount \in Nat \ {0}
                       /\ inf.species[k].probability \in 0..100
                       /\ inf.totalAudioDetections > 0
                 /\ (inf.totalAudioDetections = 0
                        => inf.confidenceScore = 0 /\ inf.species = <<>>)

\* a color with drone detections whose candidates have no acoustic count (one
\* missing from acoustic_counts, one counted 0), next to a mapped color
\* without drone detections
C11_Witness ==
    /\ report # Null
    /\ "acoustic_counts" \in DOMAIN report
    /\ \E i \in DOMAIN MappingOf(report) : VisualCountOf(report, MappingOf(report)[i].key) = 0
    /\ \E j \in DOMAIN speciesInferences :
          LET candidates == CandidatesOf(report, speciesInferences[j].colorClass)
          IN /\ speciesInferences[j].totalAudioDetections = 0
             /\ speciesInferences[j].confidenceScore = 0
             /\ speciesInferences[j].unidentified = speciesInferences[j].droneCount
             /\ \E sp \in Range(candidates) : sp \notin DOMAIN report.acoustic_counts
             /\ \E sp \in Range(candidates) :
                   sp \in DOMAIN report.acoustic_counts /\ report.acoustic_counts[sp] = 0

(***************************************************************************)
(* Properties of the stations of the map (SpecMap)                         *)
(***************************************************************************)
\* the number of the line of the 4-decimal grid nearest to x metres of arc
Rounded4(x) == CHOOSE r \in 0..x : RoundsTo(x * 10000, 111195, r)

CarriesAruId(d) == "aru_id" \in DOMAIN d

\* the stations that hold the detection
StationsOf(d) == {s \in DOMAIN aruStations : d \in Range(aruStations[s].detections)}

InOneStation(d, e) == StationsOf(d) \cap StationsOf(e) # {}

\* C12: when the stations are computed, every acoustic detection is in
\* exactly one station; two detections with the same aru_id are in the same
\* station whatever their coordinates; two detections without aru_id are in
\* the same station if and only if their lat and their lon round to the same
\* 4 decimals.
C12_StationGrouping ==
    renderError = "none" =>
        /\ \A i \in DOMAIN acousticData : Cardinality(StationsOf(acousticData[i])) = 1
        /\ \A i, j \in DOMAIN acousticData :
              LET d == acousticData[i]
                  e == acousticData[j]
              IN /\ (CarriesAruId(d) /\ CarriesAruId(e) /\ d.aru_id = e.aru_id)
                        => InOneStation(d, e)
                 /\ (~CarriesAruId(d) /\ ~CarriesAruId(e))
                        => (InOneStation(d, e)
                              <=> /\ Rounded4(d.lat) = Rounded4(e.lat)
                                  /\ Rounded4(d.lon) = Rounded4(e.lon))

\* two detections of one recorder 300 m apart in one station
C12_Witness ==
    /\ Len(acousticData) = 2
    /\ Len(aruStations) = 1
    /\ Len(aruStations[1].detections) = 2
    /\ CarriesAruId(acousticData[1])
    /\ CarriesAruId(acousticData[2])
    /\ "lat" \in DOMAIN acousticData[1]
    /\ "lat" \in DOMAIN acousticData[2]
    /\ acousticData[1].lat # acousticData[2].lat

\* two detections without aru_id 5 m apart in two stations
C12_WitnessLegacy ==
    /\ Len(acousticData) = 2
    /\ Len(aruStations) = 2
    /\ ~CarriesAruId(acousticData[1])
    /\ ~CarriesAruId(acousticData[2])
    /\ acousticData[2].lat - acousticData[1].lat = 5

\* the place in acousticData of the first detection of a station
FirstSeen(s) ==
    CHOOSE i \in DOMAIN acousticData :
        /\ acousticData[i] \in Range(aruStations[s].detections)
        /\ \A j \in 1..(i - 1) : acousticData[j] \notin Range(aruStations[s].detections)

\* C13: a station of a recorder with aru_id is labelled `ARU {aru_id}`, a
\* station of rounded coordinates `Station {n}` with n one more than the
\* number of stations first seen before it; the stations are in first-seen
\* order, so n grows with it, and the label is the one the station got when
\* its first detection was seen.
C13_StationLabels ==
    renderError = "none" =>
        /\ \A s \in DOMAIN aruStations :
              LET first == acousticData[FirstSeen(s)]
              IN /\ CarriesAruId(first) => aruStations[s].id = "ARU " \o ToString(first.aru_id)
                 /\ ~CarriesAruId(first) => aruStations[s].id = "Station " \o ToString(s)
                 /\ aruStations[s].id
                       = AruStations(SubSeq(acousticData, 1, FirstSeen(s)))[s].id
        /\ \A s, t \in DOMAIN aruStations : s < t => FirstSeen(s) < FirstSeen(t)

\* a station of a recorder, then a station of coordinates, which is number 2
C13_Witness ==
    /\ Len(aruStations) = 2
    /\ aruStations[1].id = "ARU 2"
    /\ aruStations[2].id = "Station 2"

\* the places a detection has in the detections lists of the stations
PlacesOf(d) ==
    {<<s, k>> \in (DOMAIN aruStations) \X (1..MaxDetections) :
        k \in DOMAIN aruStations[s].detections /\ aruStations[s].detections[k] = d}

\* the place of a detection in the input (the records of an array differ)
InputPlace(d) == CHOOSE i \in DOMAIN acousticData : acousticData[i] = d

\* the coordinates a record carries; one it lacks is undefined
Coordinates(r) == [f \in {"lat", "lon"} \cap DOMAIN r |-> r[f]]

\* C29: when the stations are computed they partition the acoustic
\* detections: every detection of the input has exactly one place in the
\* detections lists of the stations, the detections of a station are in
\* input order, the lat and lon of a station are those of its first
\* detection, the lengths of the detections lists add up to the size of the
\* input, and no two stations have the same label.
C29_StationsPartition ==
    renderError = "none" =>
        /\ \A i \in DOMAIN acousticData : Cardinality(PlacesOf(acousticData[i])) = 1
        /\ \A s \in DOMAIN aruStations :
              LET detections == aruStations[s].detections
              IN /\ detections # <<>>
                 /\ Range(detections) \subseteq Range(acousticData)
                 /\ \A k, l \in DOMAIN detections :
                       k < l => InputPlace(detections[k]) < InputPlace(detections[l])
                 /\ Coordinates(aruStations[s]) = Coordinates(detections[1])
        /\ SumOver([s \in DOMAIN aruStations |-> Len(aruStations[s].detections)],
                   DOMAIN aruStations) = Len(acousticData)
        /\ \A s, t \in DOMAIN aruStations : s # t => aruStations[s].id # aruStations[t].id

\* a station at the place of the first of its two detections, the second
\* 300 m away and after it
C29_Witness ==
    /\ renderError = "none"
    /\ Len(acousticData) = 2
    /\ Len(aruStations) = 1
    /\ aruStations[1].detections = acousticData
    /\ Coordinates(acousticData[1]) # Coordinates(acousticData[2])
    /\ Coordinates(aruStations[1]) = Coordinates(acousticData[1])

\* two stations with different labels, one detection each
C29_WitnessTwoStations ==
    /\ renderError = "none"
    /\ Len(acousticData) = 2
    /\ Len(aruStations) = 2
    /\ aruStations[1].detections = <<acousticData[1]>>
    /\ aruStations[2].detections = <<acousticData[2]>>
    /\ aruStations[1].id = "Station 1"
    /\ aruStations[2].id = "Station 2"

(***************************************************************************)
(* Properties of the correlation over incomplete records (SpecMap)         *)
(***************************************************************************)
WellFormed(d) == {"lat", "lon", "timestamp"} \subseteq DOMAIN d

OtherType == IF selectedVisual # Null THEN "acoustic" ELSE "visual"

\* C14 (as claimed): correlating with an anchor that lacks lat or lon ends
\* in an InvalidDetection error and gives no result list.
C14_AnchorRejected ==
    (HasAnchor /\ ~({"lat", "lon"} \subseteq DOMAIN Anchor))
        => renderError = "InvalidDetection"

\* C15: a candidate that lacks lat, lon or timestamp does not stop the scan
\* and is not in the result, and the result is what the well-formed
\* candidates alone give: those in the window of the anchor, in the order
\* the scan gives without the incomplete records.
C15_MalformedCandidateSkipped ==
    HasAnchor =>
        /\ \A j \in DOMAIN correlations : WellFormed(correlations[j].data)
        /\ WellFormed(Anchor) =>
              \A i \in DOMAIN sourceData :
                  (WellFormed(sourceData[i]) /\ Near(Anchor, sourceData[i]))
                      <=> \E j \in DOMAIN correlations : correlations[j].data = sourceData[i]
        /\ correlations = Correlate(Anchor, OtherType, SelectSeq(sourceData, WellFormed))

\* an incomplete record in front of a candidate in the window, which is the
\* result
C15_Witness ==
    /\ HasAnchor
    /\ WellFormed(Anchor)
    /\ Len(sourceData) = 2
    /\ ~WellFormed(sourceData[1])
    /\ Len(correlations) = 1
    /\ correlations[1].data = sourceData[2]

\* C16 (as claimed): grouping acoustic detections of which one lacks lat or
\* lon ends in an InvalidDetection error, raised before anything is computed
\* from the coordinates of that record.
C16_StationsRejectInvalid ==
    (\E i \in DOMAIN acousticData : ~({"lat", "lon"} \subseteq DOMAIN acousticData[i]))
        => renderError = "InvalidDetection"

(***************************************************************************)
(* Properties of the correlation across fetches (SpecInspector)            *)
(***************************************************************************)
\* the module array of the other modality than the anchor's, as it is now
CurrentOpposite == IF selectedVisual # Null THEN acousticDetections ELSE visualDetections

\* C17 (as claimed): whatever fetches and selections went before, the
\* correlations shown for the selected detection are its correlation against
\* the opposite-modality collection as it is now.
C17_CorrelationsCurrent ==
    HasAnchor =>
        /\ sourceData = CurrentOpposite
        /\ \A i \in DOMAIN CurrentOpposite :
              Near(Anchor, CurrentOpposite[i])
                  <=> \E j \in DOMAIN correlations : correlations[j].data = CurrentOpposite[i]

(***************************************************************************)
(* Properties of the whole page (SpecPage)                                 *)
(***************************************************************************)
\* C18: whatever was correlated, grouped into stations and inferred so far,
\* the detection arrays hold the records of the response they were fetched
\* from, in its order and with its fields, the selected detection is one of
\* them, and the report is the response it was set to, with its
\* visual_counts, its acoustic_counts and the species lists of its mapping.
C18_InputsUnchanged ==
    /\ visualDetections \in {<<>>, serverVisual}
    /\ acousticDetections \in {<<>>, serverAcoustic}
    /\ visualData \in {<<>>, serverVisual}
    /\ acousticData \in {<<>>, serverAcoustic}
    /\ selectedVisual # Null => selectedVisual \in Range(serverVisual)
    /\ selectedAcoustic # Null => selectedAcoustic \in Range(serverAcoustic)
    /\ report \in {Null, fusionResponse}
    /\ \A j \in DOMAIN correlations : correlations[j].data \in Range(CurrentOpposite)
    /\ \A s \in DOMAIN aruStations :
          Range(aruStations[s].detections) \subseteq Range(acousticData)

\* a correlation whose sort put the second candidate first, with stations on
\* the map and an inference whose sort put a later candidate first
C18_Witness ==
    /\ HasAnchor
    /\ Len(correlations) = 2
    /\ correlations[1].data = CurrentOpposite[2]
    /\ Len(aruStations) >= 1
    /\ report # Null
    /\ Len(speciesInferences) = 1
    /\ speciesInferences[1].species[1].species # MappingOf(report)[1].value[1]

(***************************************************************************)
(* Properties of the correlation as a relation (SpecInspector)             *)
(***************************************************************************)
AnchorType == IF selectedVisual # Null THEN "visual" ELSE "acoustic"

\* the module array of the modality of the anchor, as it is now
CurrentOwn == IF selectedVisual # Null THEN visualDetections ELSE acousticDetections

Matched(list, d) == \E j \in DOMAIN list : list[j].data = d

\* C19: the distance of two detections is the same in both directions and
\* the distance of a detection to itself is 0; and a candidate is among the
\* matches of the anchor if and only if the anchor is among the matches of
\* that candidate against the collection of the anchor's modality.
C19_Symmetric ==
    /\ \A v \in Range(visualDetections), a \in Range(acousticDetections) :
          /\ getDistanceMeters(v.lat, v.lon, a.lat, a.lon)
                = getDistanceMeters(a.lat, a.lon, v.lat, v.lon)
          /\ getDistanceMeters(v.lat, v.lon, v.lat, v.lon) = 0
          /\ getDistanceMeters(a.lat, a.lon, a.lat, a.lon) = 0
    /\ HasAnchor =>
          \A i \in DOMAIN sourceData :
              Matched(correlations, sourceData[i])
                  <=> Matched(Correlate(sourceData[i], AnchorType, CurrentOwn), Anchor)

\* an anchor with a candidate that matches it and a candidate that does not
C19_Witness ==
    /\ HasAnchor
    /\ Len(sourceData) = 2
    /\ Len(correlations) = 1
    /\ Anchor \in Range(CurrentOwn)
    /\ Anchor.lon # 0

\* C20: an anchor correlated against an empty collection of the other
\* modality has an empty list of correlations, and nothing fails.
C20_EmptyOpposite ==
    (HasAnchor /\ (sourceData = <<>> \/ CurrentOpposite = <<>>)) =>
        /\ correlations = <<>>
        /\ renderError = "none"
        /\ isInspectorOpen

\* a detection selected while no detection of the other modality is loaded
C20_Witness ==
    /\ HasAnchor
    /\ CurrentOpposite = <<>>
    /\ CurrentOwn # <<>>
    /\ correlations = <<>>

(***************************************************************************)
(* The editable species color mapping                                      *)
(***************************************************************************)
NoRepeats(list) == \A i, j \in DOMAIN list : list[i] = list[j] => i = j

\* an empty or whitespace-only name
Blank(name) == \A i \in DOMAIN name : name[i] = " "

Spaces(n) == [i \in 1..n |-> " "]

\* name is text without the whitespace around it
Stripped(text, name) ==
    /\ name # <<>> => name[1] # " " /\ name[Len(name)] # " "
    /\ \E before, after \in 0..Len(text) : text = Spaces(before) \o name \o Spaces(after)

Positions(list, name) == {i \in DOMAIN list : list[i] = name}

\* shorter is list without the occurrences of name, the others in their order
Removed(list, name, shorter) ==
    /\ Len(shorter) = Len(list) - Cardinality(Positions(list, name))
    /\ \A i \in DOMAIN list :
           list[i] # name =>
               shorter[i - Cardinality({j \in Positions(list, name) : j < i})] = list[i]

\* the lists of the response all hold a name once at most
LoadedWithoutDuplicates ==
    mappingResponse # Null =>
        \A color \in DOMAIN mappingResponse.mapping :
            NoRepeats(mappingResponse.mapping[color])

\* and no empty or whitespace-only name
LoadedWithoutBlanks ==
    mappingResponse # Null =>
        \A color \in DOMAIN mappingResponse.mapping :
            \A name \in Range(mappingResponse.mapping[color]) : ~Blank(name)

OrderedSets(m) ==
    \A color \in ColorKeys :
        /\ NoRepeats(m[color])
        /\ \A name \in Range(m[color]) : ~Blank(name)

\* a step of the editor changes the list of one color, by a name appended
\* or by a name removed
EditStep ==
    \A color \in ColorKeys :
        mapping'[color] # mapping[color] =>
            /\ \A other \in ColorKeys \ {color} : mapping'[other] = mapping[other]
            /\ \/ \E name \in Range(mapping'[color]) :
                      /\ mapping'[color] = Append(mapping[color], name)
                      /\ Stripped(newSpecies[color], name)
               \/ \E name \in Range(mapping[color]) :
                      Removed(mapping[color], name, mapping'[color])

\* C21 as stated: from a loaded mapping without duplicates, every list stays
\* an ordered set of names that are not blank, additions are appended and a
\* removal leaves the other names and the other colors as they were.
C21_OrderedSetsAsStated ==
    [][LoadedWithoutDuplicates =>
           /\ OrderedSets(mapping')
           /\ ~mappingLoading => EditStep]_settingsVars

\* C21: from a loaded mapping without duplicates and without empty or
\* whitespace-only names, after any handleAddSpecies and handleRemoveSpecies
\* calls every color's list holds a name once at most and no blank name, an
\* added species is the trimmed input appended at the end, and a removal
\* leaves the order of the other names and the lists of the other colors.
C21_OrderedSets ==
    [][(LoadedWithoutDuplicates /\ LoadedWithoutBlanks) =>
           /\ OrderedSets(mapping')
           /\ ~mappingLoading => EditStep]_settingsVars

\* "h" was added in front of a loaded "e" that was removed and added again
C21_Witness ==
    /\ mappingResponse # Null
    /\ LoadedWithoutDuplicates /\ LoadedWithoutBlanks
    /\ "white" \in DOMAIN mappingResponse.mapping
    /\ mappingResponse.mapping["white"] = << <<"e">> >>
    /\ mapping["white"] = << <<"h">>, <<"e">> >>
    /\ mapping["black"] # <<>>

(***************************************************************************)
(* The report of the FusionCard and the surveys selected                   *)
(***************************************************************************)
\* the report shown is the server's report for the pair selected now
ReportOfSelection ==
    /\ canGenerate
    /\ report = FusionStore(selectedDroneSurvey.id, selectedAcousticSurvey.id)

\* C22: a report that is not null was generated for the drone survey and the
\* acoustic survey selected now; the response to a request for a pair
\* selected before never becomes the report shown.
C22_ReportOfSelectedPair == report # Null => ReportOfSelection

(***************************************************************************)
(* What is selected on the map and what the inspector shows                *)
(***************************************************************************)
\* the view InspectorPanel returns
InspectorView ==
    IF ~isInspectorOpen THEN "none"
    ELSE IF selectedSurvey # Null THEN "survey"
    ELSE IF selectedARU # Null THEN "aru"
    ELSE "detection"

Selections == <<selectedVisual, selectedAcoustic, selectedARU, selectedSurvey>>

SelectedCount == Cardinality({i \in DOMAIN Selections : Selections[i] # Null})

\* the ARU view shows the response to the request for what is selected now,
\* or nothing where that request brought no array
ShowsSelectedARU ==
    /\ \/ filteredDetections = <<>>
       \/ /\ HasAruId(selectedARU)
          /\ filteredDetections = AruDetections(selectedARU.aru_id, selectedSurveyIds)
    /\ availableSurveys = SurveysOf(filteredDetections)

\* C23: once no request for ARU detections is in flight, filteredDetections
\* and availableSurveys are those of the ARU and survey filter selected now:
\* neither responses arriving out of order nor an ARU without numeric aru_id
\* leave the detections of an ARU selected before displayed.
C23_ShowsSelectedARU ==
    (aruInFlight = {} /\ selectedARU # Null) => ShowsSelectedARU

\* C25: after any calls of the five handlers at most one of selectedVisual,
\* selectedAcoustic, selectedARU and selectedSurvey is not null, and the
\* inspector shows the view of the item selected last.
C25_AtMostOneSelected ==
    /\ SelectedCount <= 1
    /\ selectedVisual # Null \/ selectedAcoustic # Null => InspectorView = "detection"

\* C26: the inspector is open exactly when one of selectedVisual,
\* selectedAcoustic, selectedARU and selectedSurvey is not null, so that its
\* single-detection view is never reached with selectedVisual and
\* selectedAcoustic both null.
C26_OpenIffSelected ==
    /\ isInspectorOpen <=> SelectedCount >= 1
    /\ InspectorView = "detection" => selectedVisual # Null \/ selectedAcoustic # Null

\* the inspector was closed with a station selected and a detection is
\* selected now
C26_Witness ==
    /\ InspectorView = "detection"
    /\ selectedAcoustic # Null
    /\ filteredDetections # <<>>

(***************************************************************************)
(* The status of BirdJet and its requests                                  *)
(***************************************************************************)
\* C24: while an /analyze request is in flight analysisStatus is
\* "processing" and there is one request at most; a reset timer set by a
\* failed analysis never changes the status of a later analysis that is
\* processing or has succeeded.
C24_ProcessingWhileInFlight ==
    [][/\ analyzeInFlight' # {} =>
              analysisStatus' = "processing" /\ Cardinality(analyzeInFlight') <= 1
       /\ (resetTimers' < resetTimers /\ analysisStatus \in {"processing", "success"}) =>
              analysisStatus' = analysisStatus]_birdJetVars

(***************************************************************************)
(* The ARUs of the audio files of a new survey and its import request      *)
(***************************************************************************)
AudioPositions == 0..(Len(audioFiles) - 1)

\* the entry of a position: the set of its value, empty without entry
EntryOf(object, key) == {object[k] : k \in DOMAIN object \cap {key}}

\* the file at index is removed and every file left has the entry it had
RemovedKeepingArus(index) ==
    /\ audioFiles' = RemoveAt(audioFiles, index)
    /\ \A k \in 0..(Len(audioFiles') - 1) :
           EntryOf(audioAruMap', k) = EntryOf(audioAruMap, IF k < index THEN k ELSE k + 1)
    /\ DOMAIN audioAruMap' \subseteq 0..(Len(audioFiles') - 1)

\* C27: audioAruMap[i] stays the ARU assigned to the file now at position
\* i: removing a file moves no assignment to another file, drops none of a
\* file that remains and leaves no entry past the end of the list.
C27_RemovalKeepsArus ==
    [][removeAudio => \E index \in AudioPositions : RemovedKeepingArus(index)]_modalVars

\* name, files and an ARU for every audio position
SubmitAllowed ==
    /\ surveyName # ""
    /\ Len(orthomosaicFiles) + Len(audioFiles) > 0
    /\ \A i \in AudioPositions : i \in DOMAIN audioAruMap /\ audioAruMap[i] # NaN

\* C30: handleSubmit sends the import request only with a survey name, a
\* file and an ARU for every audio position; otherwise it sets an error,
\* sends nothing and leaves name, files and audioAruMap as they are; after
\* a request settles, with success or not, isUploading is false.
C30_SubmitChecked ==
    [][/\ handleSubmit =>
              IF SubmitAllowed
              THEN uploadInFlight' = uploadInFlight + 1 /\ isUploading'
              ELSE /\ uploadError' # NoError
                   /\ uploadInFlight' = uploadInFlight
                   /\ UNCHANGED <<surveyName, orthomosaicFiles, audioFiles, audioAruMap>>
       /\ uploadInFlight' > uploadInFlight => SubmitAllowed
       /\ uploadInFlight' < uploadInFlight => ~isUploading']_modalVars

\* a request is in flight for a survey of two audio files and no orthomosaic
C30_Witness ==
    /\ uploadInFlight = 1
    /\ isUploading
    /\ Len(audioFiles) = 2
    /\ orthomosaicFiles = <<>>

(***************************************************************************)
(* The loading state of the FusionInsightsPanel                            *)
(***************************************************************************)
\* the panel is open with a visual survey
InsightsOpen == insightsProps.isOpen /\ insightsProps.visualSurveyId # 0

\* C28: whenever the panel is open with a visual survey id, loading becomes
\* false in the end (a report or an error is shown in place of "Generating
\* fusion report..."), every fetch issued settling in the end; also when it
\* is opened with neither acoustic survey nor ARU.  A panel that is closed or
\* loses its visual survey first has left that state too.
C28_LoadingEnds == InsightsOpen ~> (~insightsLoading \/ ~InsightsOpen)

====
